---- MODULE Spec2Model ----
(***************************************************************************)
(* edo-time-jp: the temporal-time system (six day koku and six night koku  *)
(* between dawn and dusk), the lunar / rokuyo table lookup, the moon age   *)
(* and the aggregate built by calculateEdoTime.                            *)
(*                                                                         *)
(* The core is a set of pure functions over Date values and two tables     *)
(* loaded once.  The state of the model is the pair of tables together     *)
(* with the last call that was made: its name, its arguments and what it   *)
(* returned.                                                               *)
(*                                                                         *)
(* Instants are integer milliseconds on the host clock, counted from local *)
(* midnight of day 0 of a short window (day 0 is 2025-12-30).  A JavaScript *)
(* number that is not a whole millisecond is kept as a numerator over 6;   *)
(* building a Date from it drops the fraction (TimeClip), as the runtime   *)
(* does.                                                                   *)
(***************************************************************************)
EXTENDS Integers, Sequences, FiniteSets, TLC

VARIABLES op, arg, res, LUNAR_CALENDAR_MAP, newMoonDates

\* useEdoTime: the location prop, the loc state, whether the location effect
\* is due to run, whether navigator.geolocation exists, the
\* getCurrentPosition requests and retry timers that are pending, the number
\* of runs of the location effect, the errors the current run has seen, and
\* the last call of setLoc (the initial state counts as one).
VARIABLES locationProp, loc, locEffectDue, geolocation, positionRequests,
          retryTimers, effectRun, errors, lastSetLoc

coreVars == <<op, arg, res, LUNAR_CALENDAR_MAP, newMoonDates>>

hookVars ==
    <<locationProp, loc, locEffectDue, geolocation, positionRequests,
      retryTimers, effectRun, errors, lastSetLoc>>

\* CurrentLocationDisplay and reverseGeocode: data.location, the place-name
\* state (with the run of the effect that set it), whether the effect is due,
\* the number of runs of the effect, the reverseGeocode calls in progress,
\* the cache, what each finished call returned, and for each cache key the
\* first non-empty name a call returned.
VARIABLES displayLoc, placeNameState, displayEffectDue, displayRun,
          geocodeCalls, cache, returned, firstNames

\* debugLog: the buffer, what isDebug() answers, the clock the timestamps
\* are read from, and the entries logged since the last clearLogs.
VARIABLES logBuffer, debug, clock, logged

displayVars ==
    <<displayLoc, placeNameState, displayEffectDue, displayRun, geocodeCalls,
      cache, returned, firstNames>>

logVars == <<logBuffer, debug, clock, logged>>

\* Everything outside the core: the core calls leave it alone.
uiVars == <<hookVars, displayVars, logVars>>

notHookVars == <<coreVars, displayVars, logVars>>

notDisplayVars == <<coreVars, hookVars, logVars>>

\* The log is exercised through calls, which use op, arg and res.
notLogVars == <<LUNAR_CALENDAR_MAP, newMoonDates, hookVars, displayVars>>

vars == <<coreVars, uiVars>>

---------------------------------------------------------------------------
(* Units                                                                   *)

\* 24 * 60 * 60 * 1000, the length the code gives to a solar day.
DAY_MS == 86400000

HOUR_MS == 3600000

\* 30 * 60 * 1000, the margin of getAkeMutsu / getKureMutsu.
MUTSU_MARGIN_MS == 1800000

\* new Date(n / 6).getTime(): TimeClip keeps the integer part, toward zero.
NewDate6(n) == IF n >= 0 THEN n \div 6 ELSE -((-n) \div 6)

\* An optional argument is the empty set (undefined) or a singleton.
Undefined == {}

Some(x) == {x}

ValueOf(o) == CHOOSE x \in o : TRUE

---------------------------------------------------------------------------
(* time-system.ts: getAkeMutsu, getKureMutsu, getTemporalTime              *)

getAkeMutsuAfterSunrise(sunrise) == sunrise + MUTSU_MARGIN_MS

getAkeMutsu(sunrise) == sunrise - MUTSU_MARGIN_MS

getKureMutsu(sunset) == sunset + MUTSU_MARGIN_MS

\* koku = Math.floor(elapsed / (duration / 6)) + 1; if (koku > 6) koku = 6
KokuOfZeroBased(elapsed, duration) ==
    LET k == (6 * elapsed) \div duration IN IF k > 6 THEN 6 ELSE k

KokuOf(elapsed, duration) ==
    LET k == ((6 * elapsed) \div duration) + 1 IN IF k > 6 THEN 6 ELSE k

\* new Date(origin + (koku - 1) * (duration / 6))
KokuStartFromNext(origin, duration, koku) == NewDate6(6 * origin + koku * duration)

KokuStart(origin, duration, koku) == NewDate6(6 * origin + (koku - 1) * duration)

\* new Date(origin + koku * (duration / 6))
KokuEnd(origin, duration, koku) == NewDate6(6 * origin + koku * duration)

TemporalTime(period, origin, duration, koku) ==
    [period |-> period, koku |-> koku,
     start |-> KokuStart(origin, duration, koku),
     end |-> KokuEnd(origin, duration, koku)]

\* The day branch: nowTime >= akeMutsuTime && nowTime < kureMutsuTime.
DayBranch(akeMutsu, kureMutsu, now) ==
    LET dayDuration == kureMutsu - akeMutsu
        elapsed == now - akeMutsu
    IN  TemporalTime("day", akeMutsu, dayDuration, KokuOf(elapsed, dayDuration))

\* The night between the previous dusk and today's dawn.
PrevNightBranch(akeMutsu, now, prevKureMutsuTime) ==
    LET nightDuration == akeMutsu - prevKureMutsuTime
        elapsed == now - prevKureMutsuTime
    IN  TemporalTime("night", prevKureMutsuTime, nightDuration,
                     KokuOf(elapsed, nightDuration))

NightBranchFromDawn(akeMutsu, kureMutsu, now) ==
    LET dayDuration == kureMutsu - akeMutsu
        nightDuration == DAY_MS - dayDuration
    IN  TemporalTime("night", kureMutsu, nightDuration,
                     KokuOf(now - akeMutsu, nightDuration))

\* The ordinary night: the rest of the 24 hours after today's dusk.
NightBranch(akeMutsu, kureMutsu, now) ==
    LET dayDuration == kureMutsu - akeMutsu
        nightDuration == DAY_MS - dayDuration
        elapsed == IF now >= kureMutsu
                   THEN now - kureMutsu
                   ELSE ((now + DAY_MS) - akeMutsu) + (DAY_MS - dayDuration)
    IN  TemporalTime("night", kureMutsu, nightDuration,
                     KokuOf(elapsed, nightDuration))

getTemporalTime(akeMutsu, kureMutsu, now, prevKureMutsu) ==
    IF now >= akeMutsu /\ now < kureMutsu
    THEN DayBranch(akeMutsu, kureMutsu, now)
    ELSE IF now < akeMutsu /\ prevKureMutsu # Undefined
         THEN PrevNightBranch(akeMutsu, now, ValueOf(prevKureMutsu))
         ELSE NightBranch(akeMutsu, kureMutsu, now)

\* The three-argument revision of getTemporalTime: an instant before dawn is
\* moved forward by 24 hours before it is classified.
getTemporalTime3(akeMutsu, kureMutsu, now) ==
    LET dayDuration == kureMutsu - akeMutsu
        nightDuration == DAY_MS - dayDuration
        normalizedNowTime == IF now < akeMutsu THEN now + DAY_MS ELSE now
    IN  IF normalizedNowTime >= akeMutsu /\ normalizedNowTime < kureMutsu
        THEN TemporalTime("day", akeMutsu, dayDuration,
                          KokuOf(normalizedNowTime - akeMutsu, dayDuration))
        ELSE LET elapsed == IF normalizedNowTime >= kureMutsu
                            THEN normalizedNowTime - kureMutsu
                            ELSE (normalizedNowTime - akeMutsu)
                                 + (DAY_MS - dayDuration)
             IN  TemporalTime("night", kureMutsu, nightDuration,
                              KokuOf(elapsed, nightDuration))

---------------------------------------------------------------------------
(* Inputs of getTemporalTime                                               *)

\* Dawn of day 1 is BaseDawn .. BaseDawn + MaxSkew, dusk likewise, so that
\* the day length takes every residue modulo 6.
BaseDawn == 104400000

BaseDusk == 151200000

BasePrevDusk == 64700000

MaxSkew == 2

\* The instant is taken within MaxJitter ms of every koku boundary.
MaxJitter == 1

DawnSet == {BaseDawn, BaseDawn + HOUR_MS - MaxSkew}

DuskSet == {BaseDusk + s : s \in 0..MaxSkew}

\* A dusk of day 0 for which the middle of the night that ends at the later
\* dawn of day 1 falls a few milliseconds after midnight.
LatePrevDusk == 18 * HOUR_MS + 10

PrevDuskSet ==
    {Undefined} \cup {Some(BasePrevDusk + 7 * s) : s \in 0..MaxSkew}
        \cup {Some(LatePrevDusk)}

\* From one day to the next the dawn moves by at most MaxDawnDrift ms.
MaxDawnDrift == 60000

PrevDawns(akeMutsu) ==
    {akeMutsu - DAY_MS - drift : drift \in {-MaxDawnDrift, 0, MaxDawnDrift}}

Sixths(origin, duration) == {origin + ((k * duration) \div 6) : k \in 0..6}

NowBases(akeMutsu, kureMutsu, prevKureMutsu) ==
    LET dayDuration == kureMutsu - akeMutsu
        nightDuration == DAY_MS - dayDuration
    IN  Sixths(akeMutsu, dayDuration)
        \cup Sixths(kureMutsu, nightDuration)
        \cup Sixths(akeMutsu - nightDuration, nightDuration)
        \cup {akeMutsu - DAY_MS, kureMutsu + nightDuration + HOUR_MS}
        \cup (IF prevKureMutsu = Undefined THEN {}
              ELSE Sixths(ValueOf(prevKureMutsu), akeMutsu - ValueOf(prevKureMutsu))
                   \cup {ValueOf(prevKureMutsu) - HOUR_MS})

NowSet(akeMutsu, kureMutsu, prevKureMutsu) ==
    {b + j : b \in NowBases(akeMutsu, kureMutsu, prevKureMutsu),
             j \in (-MaxJitter)..MaxJitter}

---------------------------------------------------------------------------
(* Date fields on the host clock                                           *)

\* The window starts at local midnight of 2025-12-30; day 2 is 2026-01-01.
DayIndex(date) == date \div DAY_MS

getFullYear(date) == IF DayIndex(date) < 2 THEN 2025 ELSE 2026

\* 0-based, as Date.prototype.getMonth.
getMonth(date) == IF DayIndex(date) < 2 THEN 11 ELSE 0

getDate(date) == IF DayIndex(date) < 2 THEN 30 + DayIndex(date) ELSE DayIndex(date) - 1

\* String(n).padStart(2, '0')
PadStart2(n) == IF n < 10 THEN "0" \o ToString(n) ELSE ToString(n)

---------------------------------------------------------------------------
(* lunar-calendar-data.ts: the date-keyed table                            *)

Null == {}

\* Characters outside ASCII are written by name: a rokuyo label is the
\* sequence of its glyphs, "kangxi:" marking the compatibility (Kangxi
\* radical) form of a glyph.
Taian == <<"dai", "an">>

Shakko == <<"aka", "kuchi">>

Sensho == <<"saki", "katsu">>

Tomobiki == <<"tomo", "hiki">>

Senbu == <<"saki", "make">>

Butsumetsu == <<"butsu", "metsu">>

TaianCompat == <<"kangxi:dai", "an">>

ShakkoCompat == <<"kangxi:aka", "kangxi:kuchi">>

normalizeRokuyo(rokuyo) ==
    IF rokuyo = TaianCompat THEN Taian
    ELSE IF rokuyo = ShakkoCompat THEN Shakko
    ELSE rokuyo

\* One line of the CSV, split at the commas; the two unused columns are left
\* out.  The numeric columns hold the value parseInt reads.
CsvLine(date, lunarYear, lunarMonth, lunarDay, isLeapMonth, rokuyo) ==
    [date |-> date, lunarYear |-> lunarYear, lunarMonth |-> lunarMonth,
     lunarDay |-> lunarDay, isLeapMonth |-> isLeapMonth, rokuyo |-> rokuyo]

HeaderLine == CsvLine("date", 0, 0, 0, "isLeapMonth", <<"rokuyo">>)

BlankLine == CsvLine("", 0, 0, 0, "", <<>>)

MapSet(map, key, value) ==
    [k \in (DOMAIN map) \cup {key} |-> IF k = key THEN value ELSE map[k]]

LunarCalendarRecord(line) ==
    [date |-> line.date,
     lunarYear |-> line.lunarYear,
     lunarMonth |-> line.lunarMonth,
     lunarDay |-> line.lunarDay,
     isLeapMonth |-> (line.isLeapMonth = "TRUE"),
     rokuyo |-> normalizeRokuyo(line.rokuyo)]

RECURSIVE ParseLines(_, _, _)
ParseLines(lines, i, map) ==
    IF i > Len(lines) THEN map
    ELSE IF lines[i] = BlankLine \/ lines[i].date = "" \/ lines[i].rokuyo = <<>>
         THEN ParseLines(lines, i + 1, map)
         ELSE ParseLines(lines, i + 1,
                         MapSet(map, lines[i].date, LunarCalendarRecord(lines[i])))

\* The first line is the header and is skipped.
parseLunarCalendarCSV(lines) == ParseLines(lines, 2, <<>>)

DateKeyNoPad(date) ==
    ToString(getFullYear(date)) \o "-" \o ToString(getMonth(date) + 1)
        \o "-" \o ToString(getDate(date))

DateKey(date) ==
    ToString(getFullYear(date)) \o "-" \o PadStart2(getMonth(date) + 1)
        \o "-" \o PadStart2(getDate(date))

getLunarCalendarData(date) ==
    IF DateKey(date) \in DOMAIN LUNAR_CALENDAR_MAP
    THEN Some(LUNAR_CALENDAR_MAP[DateKey(date)])
    ELSE Null

\* A call either returns a value or throws an Error with a message.
Returned(value) == [threw |-> FALSE, value |-> value]

Thrown(message) == [threw |-> TRUE, error |-> message]

\* lunar-calendar.ts
getLunarDate(date) ==
    LET data == getLunarCalendarData(date)
    IN  IF data = Null
        THEN Thrown("lunar data not found: " \o ToString(date))
        ELSE Returned([year |-> ValueOf(data).lunarYear,
                       month |-> ValueOf(data).lunarMonth,
                       day |-> ValueOf(data).lunarDay])

\* rokuyo.ts
getRokuyo(date) ==
    LET data == getLunarCalendarData(date)
    IN  IF data = Null
        THEN Thrown("rokuyo data not found: " \o ToString(date))
        ELSE Returned(ValueOf(data).rokuyo)

---------------------------------------------------------------------------
(* lunar-calendar.ts: the moon age                                         *)

\* The new-moon list spans years, and a synodic month is 2 551 442 976 ms:
\* an instant is kept here as whole days since the origin of the window and
\* the milliseconds of that day, and a duration likewise.  The arithmetic is
\* exact in milliseconds.
Inst(d, ms) == [d |-> d, ms |-> ms]

ToInst(date) == Inst(date \div DAY_MS, date % DAY_MS)

InstLT(a, b) == a.d < b.d \/ (a.d = b.d /\ a.ms < b.ms)

InstLE(a, b) == ~InstLT(b, a)

InstAdd(a, b) == Inst(a.d + b.d + ((a.ms + b.ms) \div DAY_MS), (a.ms + b.ms) % DAY_MS)

InstSub(a, b) == Inst(a.d - b.d + ((a.ms - b.ms) \div DAY_MS), (a.ms - b.ms) % DAY_MS)

ZeroDays == Inst(0, 0)

\* const synodicMonth = 29.53059 (days): 29 days and 45 842 976 ms.
synodicMonth == Inst(29, 45842976)

\* The 29.530588 days of getMoonPhaseName, in tenths of a millisecond past
\* 29 days: 29 days and 45 842 803.2 ms.
PhaseMonthDays == 29

PhaseMonthTenthMs == 458428032

\* a % m of JavaScript for a >= 0 and m > 0.
RECURSIVE Remainder(_, _)
Remainder(a, m) == IF InstLT(a, m) THEN a ELSE Remainder(InstSub(a, m), m)

\* a % m of JavaScript: the sign of the result is the sign of a.
JsRemainder(a, m) ==
    IF InstLT(a, ZeroDays)
    THEN InstSub(ZeroDays, Remainder(InstSub(ZeroDays, a), m))
    ELSE Remainder(a, m)

MoonAgeErrorSameReason(reason) == [moonAge |-> ZeroDays, error |-> Some("out of range")]

MoonAgeError(reason) == [moonAge |-> ZeroDays, error |-> Some(reason)]

\* The loop from the end of the list: the last index whose new moon is <= the
\* target, or Null.
NearestNewMoonStrict(targetTime) ==
    LET found == {i \in 1..Len(newMoonDates) : InstLT(newMoonDates[i], targetTime)}
    IN  IF found = {} THEN Null
        ELSE Some(newMoonDates[CHOOSE i \in found : \A j \in found : j <= i])

NearestNewMoon(targetTime) ==
    LET found == {i \in 1..Len(newMoonDates) : InstLE(newMoonDates[i], targetTime)}
    IN  IF found = {} THEN Null
        ELSE Some(newMoonDates[CHOOSE i \in found : \A j \in found : j <= i])

\* diffDays % synodicMonth, lifted into [0, synodicMonth) when negative.
MoonAgeOfDiff(diffTime) ==
    LET moonAge == JsRemainder(diffTime, synodicMonth)
    IN  IF InstLT(moonAge, ZeroDays) THEN InstAdd(moonAge, synodicMonth) ELSE moonAge

getMoonAge(date) ==
    IF Len(newMoonDates) = 0
    THEN MoonAgeError("new moon data not loaded")
    ELSE LET firstNewMoon == newMoonDates[1]
             lastNewMoon == newMoonDates[Len(newMoonDates)]
             maxDate == InstAdd(lastNewMoon, synodicMonth)
             nearestNewMoon == NearestNewMoon(date)
         IN  IF InstLT(date, firstNewMoon)
             THEN MoonAgeError("out of range: data starts at the first new moon")
             ELSE IF InstLT(maxDate, date)
             THEN MoonAgeError("out of range: data ends at the last new moon")
             ELSE IF nearestNewMoon = Null
             THEN MoonAgeError("new moon not found")
             ELSE [moonAge |-> MoonAgeOfDiff(InstSub(date, ValueOf(nearestNewMoon))),
                   error |-> Undefined]

---------------------------------------------------------------------------
(* JavaScript numbers of degrees                                           *)

\* A longitude is c tenths of a degree plus t units of 2^-46 degree.  The
\* fine part is there for the longitudes next to zero, where the doubles are
\* dense: t # 0 only with c = 0, or with c = 3600 as the outcome of an
\* addition.  |t| stays far below a tenth of a degree.
Num(c, t) == [c |-> c, t |-> t]

Deg(d) == Num(10 * d, 0)

NumLT(a, b) == a.c < b.c \/ (a.c = b.c /\ a.t < b.t)

NumLE(a, b) == ~NumLT(b, a)

\* The doubles in [256, 512) are 2^-44 apart: four units of t.
Ulp360 == 4

\* Round to the nearest multiple of Ulp360, a tie going to the even multiple.
RoundToUlp360(t) ==
    LET q == t \div Ulp360
        r == t % Ulp360
    IN  IF 2 * r < Ulp360 THEN Ulp360 * q
        ELSE IF 2 * r > Ulp360 THEN Ulp360 * (q + 1)
        ELSE IF q % 2 = 0 THEN Ulp360 * q ELSE Ulp360 * (q + 1)

\* a % m on integers: the result has the sign of a.
JsRem(a, m) == IF a >= 0 THEN a % m ELSE -((-a) % m)

\* x % 360, which is exact.
JsMod360(x) == IF x.t # 0 THEN x ELSE Num(JsRem(x.c, 3600), 0)

\* x + 360, rounded to a double.
Add360(x) ==
    IF x.c = 0 THEN Num(3600, RoundToUlp360(x.t)) ELSE Num(x.c + 3600, x.t)

Normalize360NoLift(x) == JsMod360(x)

\* let n = x % 360; if (n < 0) n += 360
Normalize360(x) ==
    LET n == JsMod360(x) IN IF NumLT(n, Deg(0)) THEN Add360(n) ELSE n

---------------------------------------------------------------------------
(* solar-terms.ts, and getSekkiForSolarTerm of SolarTermTable.tsx          *)

\* The 24 terms, written in Latin letters, shunbun (0 degrees) first.
SOLAR_TERMS ==
    <<[longitude |-> 0, term |-> "shunbun"], [longitude |-> 15, term |-> "seimei"],
      [longitude |-> 30, term |-> "kokuu"], [longitude |-> 45, term |-> "rikka"],
      [longitude |-> 60, term |-> "shoman"], [longitude |-> 75, term |-> "boshu"],
      [longitude |-> 90, term |-> "geshi"], [longitude |-> 105, term |-> "shousho"],
      [longitude |-> 120, term |-> "taisho"], [longitude |-> 135, term |-> "risshu"],
      [longitude |-> 150, term |-> "shosho"], [longitude |-> 165, term |-> "hakuro"],
      [longitude |-> 180, term |-> "shubun"], [longitude |-> 195, term |-> "kanro"],
      [longitude |-> 210, term |-> "soko"], [longitude |-> 225, term |-> "ritto"],
      [longitude |-> 240, term |-> "shosetsu"], [longitude |-> 255, term |-> "taisetsu"],
      [longitude |-> 270, term |-> "toji"], [longitude |-> 285, term |-> "shokan"],
      [longitude |-> 300, term |-> "daikan"], [longitude |-> 315, term |-> "risshun"],
      [longitude |-> 330, term |-> "usui"], [longitude |-> 345, term |-> "keichitsu"]>>

\* The test of one turn of the loop, i counted from 1.
TermMatches(normalized, i) ==
    LET current == SOLAR_TERMS[i]
        next == SOLAR_TERMS[(i % Len(SOLAR_TERMS)) + 1]
        nextLongitude == IF next.longitude < current.longitude
                         THEN next.longitude + 360 ELSE next.longitude
        normalizedNext == IF NumLT(normalized, Deg(current.longitude))
                          THEN Add360(normalized) ELSE normalized
    IN  /\ NumLE(Deg(current.longitude), normalizedNext)
        /\ NumLT(normalizedNext, Deg(nextLongitude))

\* The turns of the loop that would return.
MatchingTerms(solarLongitude) ==
    {i \in 1..Len(SOLAR_TERMS) : TermMatches(Normalize360(solarLongitude), i)}

getSolarTerm(solarLongitude) ==
    LET found == MatchingTerms(solarLongitude)
    IN  IF found = {} THEN SOLAR_TERMS[1].term
        ELSE SOLAR_TERMS[CHOOSE i \in found : \A j \in found : i <= j].term

\* The three entries of SEKKI_72_LIST that the table shows for the term that
\* starts at longitude (whole degrees), as 0-based positions in the list.
getSekkiForSolarTerm(longitude) ==
    LET baseLongitude == 315
        normalized == JsRem(JsRem(longitude - baseLongitude, 360) + 360, 360)
        startIndex == (normalized \div 5) % 72
    IN  <<startIndex, (startIndex + 1) % 72, (startIndex + 2) % 72>>

---------------------------------------------------------------------------
(* solar-longitude.ts                                                      *)

\* new Date('2000-01-01T12:00:00Z'): 9495 days before day 0 of the window, at
\* noon (the host clock is taken as UTC here).
j2000 == Inst(-9495, 12 * HOUR_MS)

\* L = 280.4665 + 36000.7698 * T with T = daysSinceJ2000 / 36525, in
\* thousandths of a degree: 985.6474 per day.
MeanLongitudeMilli(sinceJ2000) ==
    280466 + 985 * sinceJ2000.d + ((sinceJ2000.d * 6474) \div 10000)
        + (((sinceJ2000.ms \div 86400) * 986) \div 1000)

\* The equation of centre C is a sum of sines of the mean anomaly; the model
\* takes its value as an input, in thousandths of a degree.  The true
\* longitude L + C of a Date is kept to the tenth of a degree: consecutive
\* milliseconds are 1.1e-8 degree apart, so it has no fine part next to zero.
getSolarLongitude(date, center) ==
    LET sinceJ2000 == InstSub(date, j2000)
        trueLongitude == Num((MeanLongitudeMilli(sinceJ2000) + center) \div 100, 0)
    IN  Normalize360(trueLongitude)

---------------------------------------------------------------------------
(* utils/timezone.ts, astronomy/sunriseSunset.ts, core/index.ts            *)

\* new Date(date.toLocaleString("en-US", { timeZone })): the wall clock of the
\* zone read back on the host clock.  The locale string has no milliseconds;
\* shift is the zone's offset from the host's.
toTimeZone(date, shift) == ((date + shift) \div 1000) * 1000

MINUTE_MS == 60000

\* A time zone: its IANA name and its offset from UTC in the days of the
\* window, in milliseconds.
Zone(name, offset) == [name |-> name, offset |-> offset]

\* The host: the offset of its zone from UTC, and the hour that its
\* Intl.DateTimeFormat("en-US", { hour12: false }) writes in the first hour
\* of a day, 0 under the hour cycle h23 and 24 under h24.
Host(offset, midnightHour) == [offset |-> offset, midnightHour |-> midnightHour]

\* The wall clock of the zone at an instant, on the scale of the host clock.
WallClock(date, timeZone, host) == date - host.offset + timeZone.offset

\* The day of the window that a calendar date names.
CivilDayIndex(year, month, day) ==
    IF year = 2025 /\ month = 12 THEN day - 30 ELSE day + 1

\* Date.UTC(year, month, day, hours, 0, 0), month counted from 0.
DateUTC(year, month, day, hours, host) ==
    CivilDayIndex(year, month + 1, day) * DAY_MS + hours * HOUR_MS + host.offset

getCalendarDateInTimeZone(date, timeZone, host) ==
    LET wall == WallClock(date, timeZone, host)
    IN  [year |-> getFullYear(wall), month |-> getMonth(wall) + 1,
         day |-> getDate(wall)]

\* The hour and minute of the zone's wall clock at an instant, as formatToParts
\* gives them.
HourPart(date, timeZone, host) ==
    LET hourOfDay == (WallClock(date, timeZone, host) % DAY_MS) \div HOUR_MS
    IN  IF hourOfDay = 0 THEN host.midnightHour ELSE hourOfDay

MinutePart(date, timeZone, host) ==
    (WallClock(date, timeZone, host) % HOUR_MS) \div MINUTE_MS

getNoonInTimeZone(year, month, day, timeZone, host) ==
    LET utcNoon == DateUTC(year, month - 1, day, 12, host)
        hour == HourPart(utcNoon, timeZone, host)
        minute == MinutePart(utcNoon, timeZone, host)
        diffMs == ((12 - hour) * 3600 + (0 - minute) * 60) * 1000
    IN  utcNoon + diffMs

\* new Date(n / 2).getTime()
NewDate2(n) == IF n >= 0 THEN n \div 2 ELSE -((-n) \div 2)

\* new Date(year, month, day, 12, 0, 0) on the host clock.
LocalNoon(date) == DayIndex(date) * DAY_MS + 12 * HOUR_MS

getSunriseSunsetNoFallback(date, sun) ==
    [sunrise |-> NewDate2(2 * LocalNoon(date) - sun.offset2),
     sunset |-> NewDate2(2 * LocalNoon(date) + sun.offset2)]

\* The hour angle comes out of Math.acos; the model takes the offset
\* hourAngle / 15 hours as an input, in half milliseconds, and |cosH| > 1 as
\* the case sun.polar.
getSunriseSunset(date, sun) ==
    IF ~sun.polar
    THEN [sunrise |-> NewDate2(2 * LocalNoon(date) - sun.offset2),
          sunset |-> NewDate2(2 * LocalNoon(date) + sun.offset2)]
    ELSE [sunrise |-> LocalNoon(date) - 6 * HOUR_MS,
          sunset |-> LocalNoon(date) + 6 * HOUR_MS]

---------------------------------------------------------------------------
(* astronomy/solarNoon.ts                                                  *)

JST_STANDARD_MERIDIAN_DEG == 135

\* A degree of longitude is four minutes of solar time, 480000 half
\* milliseconds.  location.lon is kept in units of 1/480000 degree.
LON_UNITS_PER_DEG == 480000

Location(lon, tz) == [lon |-> lon, tz |-> tz]

\* Both branches return the same constant.
getStandardMeridianDeg(timeZone) ==
    IF timeZone.name = "Asia/Tokyo"
    THEN JST_STANDARD_MERIDIAN_DEG
    ELSE JST_STANDARD_MERIDIAN_DEG

LongitudeCorrection2Westward(standardMeridian, lon) ==
    lon - standardMeridian * LON_UNITS_PER_DEG

\* 4 * (standardMeridian - location.lon) minutes, in half milliseconds.
LongitudeCorrection2(standardMeridian, lon) ==
    standardMeridian * LON_UNITS_PER_DEG - lon

\* The equation of time is a sum of sines and cosines of the day of the year;
\* the model takes its value as an input, eot2, in half milliseconds.
getSolarNoon(year, month, day, location, host, eot2) ==
    LET clockNoon == getNoonInTimeZone(year, month, day, location.tz, host)
        standardMeridian == getStandardMeridianDeg(location.tz)
        longitudeCorrection2 == LongitudeCorrection2(standardMeridian, location.lon)
        offset2 == longitudeCorrection2 - eot2
    IN  NewDate2(2 * clockNoon + offset2)

---------------------------------------------------------------------------
(* core/index.ts                                                           *)

\* sekki-72.ts is not among the sources.  The micro-season is taken as its
\* 0-based position in the list of 72, floor(((longitude - 315) mod 360) / 5)
\* mod 72.
getSekki72(solarLongitude) ==
    LET m == (solarLongitude.c - 3150) % 3600
    IN  IF solarLongitude.t < 0 /\ m % 50 = 0
        THEN ((m \div 50) + 71) % 72
        ELSE (m \div 50) % 72

\* sun holds what the model takes as inputs of the astronomy: polar and
\* offset2 for getSunriseSunset, center for getSolarLongitude.
EdoTimeData(baseDate, location, host, sun) ==
    LET solarLongitude ==
            getSolarLongitude(ToInst(baseDate - host.offset), sun.center)
        ss == getSunriseSunset(baseDate, sun)
        calendarDate == getCalendarDateInTimeZone(baseDate, location.tz, host)
        moonAgeResult == getMoonAge(ToInst(baseDate))
    IN  [currentTime |-> baseDate,
         solarLongitude |-> solarLongitude,
         solarTerm |-> getSolarTerm(solarLongitude),
         sekki72 |-> getSekki72(solarLongitude),
         temporalTime |-> getTemporalTime(ss.sunrise, ss.sunset, baseDate, Undefined),
         akeMutsu |-> getAkeMutsu(ss.sunrise),
         kureMutsu |-> getKureMutsu(ss.sunset),
         rokuyo |-> getRokuyo(baseDate).value,
         lunarDate |-> getLunarDate(baseDate).value,
         moonAge |-> moonAgeResult.moonAge,
         moonAgeError |-> moonAgeResult.error,
         sunrise |-> ss.sunrise,
         sunset |-> ss.sunset,
         noonForCircle |-> getNoonInTimeZone(calendarDate.year, calendarDate.month,
                                             calendarDate.day, location.tz, host)]

\* getRokuyo is called before getLunarDate; neither call is guarded, so an
\* Error thrown by either leaves calculateEdoTime.
calculateEdoTime(date, location, host, sun) ==
    LET baseDate == toTimeZone(date, location.tz.offset - host.offset)
    IN  IF getRokuyo(baseDate).threw THEN Thrown(getRokuyo(baseDate).error)
        ELSE IF getLunarDate(baseDate).threw THEN Thrown(getLunarDate(baseDate).error)
        ELSE Returned(EdoTimeData(baseDate, location, host, sun))

---------------------------------------------------------------------------
(* useEdoTime: the location effect                                         *)

\* astronomy/constants.ts: Tokyo, lon 139.6503.
DEFAULT_LOCATION ==
    Location(139 * LON_UNITS_PER_DEG + 312144, Zone("Asia/Tokyo", 9 * HOUR_MS))

MAX_RETRIES == 1

\* A call of setLoc: who made it, the run of the location effect that
\* started the caller, and the value.  The initial state of useState counts
\* as the call of run 0.
SetLocCall(by, run, value) == [by |-> by, run |-> run, value |-> value]

\* One getCurrentPosition that has not called back yet, or one retry timer
\* that has not fired yet: the effect run that started it and its retryCount.
Pending(run, retryCount) == [run |-> run, retryCount |-> retryCount]

---------------------------------------------------------------------------
(* reverseGeocode and CurrentLocationDisplay                               *)

\* A latitude or longitude is kept in units of 1/100000 degree: ten units
\* per unit of the cache key, which has CACHE_KEY_PRECISION = 4 decimals.
COORD_UNITS_PER_KEY_UNIT == 10

Coords(lat, lon) == [lat |-> lat, lon |-> lon]

\* Math.round(x * 10^4): the nearest integer, a half rounded up.
RoundToKeyUnit(x) == (2 * x + COORD_UNITS_PER_KEY_UNIT) \div (2 * COORD_UNITS_PER_KEY_UNIT)

cacheKey(lat, lon) ==
    ToString(RoundToKeyUnit(lat)) \o "," \o ToString(RoundToKeyUnit(lon))

\* { status, name }, with the run of the effect whose code set it.
PlaceNameState(status, name, by) == [status |-> status, name |-> name, by |-> by]

\* One reverseGeocode call: the effect run that made it, its coordinates,
\* whether the cleanup of that run has set cancelled, whether the promise is
\* still waiting for fetch, what it settles with, whether a request was
\* issued, and whether a call for the same key had returned a non-empty name
\* before this one started.
GeocodeCall(run, coords, stage, result, requested, later) ==
    [run |-> run, coords |-> coords, cancelled |-> FALSE, stage |-> stage,
     result |-> result, requested |-> requested, later |-> later]

\* What a promise settles with: a name, null, or a rejection.
Resolved(name) == [rejected |-> FALSE, name |-> Some(name)]

ResolvedNull == [rejected |-> FALSE, name |-> Null]

Rejected == [rejected |-> TRUE, name |-> Null]

\* The record of a finished call.
Returns(call) ==
    [key |-> cacheKey(call.coords.lat, call.coords.lon), result |-> call.result,
     requested |-> call.requested, later |-> call.later]

---------------------------------------------------------------------------
(* The two datasets the tables are loaded from                             *)

LunarCsvFromDay1 ==
    <<HeaderLine,
      CsvLine("2025-12-31", 2025, 11, 12, "FALSE", Sensho),
      CsvLine("2026-01-01", 2025, 11, 13, "FALSE", Tomobiki),
      CsvLine("2026-01-02", 2025, 11, 14, "FALSE", Senbu)>>

LunarCsvWithGap ==
    <<HeaderLine,
      CsvLine("2025-12-30", 2025, 6, 11, "TRUE", TaianCompat),
      BlankLine,
      CsvLine("2026-01-01", 2025, 11, 13, "FALSE", ShakkoCompat),
      CsvLine("2026-01-01", 2025, 11, 13, "FALSE", Tomobiki)>>

LunarCsvEmpty == <<HeaderLine>>

\* Rows of a leap month: the first day of the fifth month and the first day
\* of the leap fifth month, with labels in mixed glyph forms, and a label that
\* is no rokuyo.
LunarCsvLeapMonth ==
    <<HeaderLine,
      CsvLine("2025-12-31", 2028, 5, 1, "FALSE", <<"kangxi:aka", "kuchi">>),
      CsvLine("2026-01-01", 2028, 5, 1, "TRUE", <<"aka", "kangxi:kuchi">>),
      CsvLine("2026-01-02", 2028, 5, 2, "TRUE", <<"dai", "kichi">>)>>

\* Ascending new moons: two more than a synodic month apart, then three with
\* a gap below and a gap above the synodic month.
NewMoonsLongGap == <<Inst(1, 40000000), Inst(31, 20000000)>>

NewMoonsMixedGaps == <<Inst(1, 50000000), Inst(30, 70000000), Inst(60, 40000000)>>

Datasets ==
    {[lunar |-> LunarCsvFromDay1, moons |-> NewMoonsLongGap],
     [lunar |-> LunarCsvWithGap, moons |-> NewMoonsMixedGaps],
     [lunar |-> LunarCsvLeapMonth, moons |-> NewMoonsLongGap],
     [lunar |-> LunarCsvEmpty, moons |-> <<>>]}

---------------------------------------------------------------------------
(* Inputs of the table lookups, of getMoonAge and of calculateEdoTime      *)

\* The last day of the window.
MaxDay == 3

LookupDates ==
    {day * DAY_MS + t : day \in 0..MaxDay, t \in {0, 1, 12 * HOUR_MS, DAY_MS - 1}}

\* Offsets from a tabulated new moon: around the new moon itself, around
\* 29.530588 days, around 29.53059 days, and mid-month.
MoonProbeOffsets ==
    {Inst(0, j) : j \in (-MaxJitter)..MaxJitter}
    \cup {InstAdd(Inst(PhaseMonthDays, PhaseMonthTenthMs \div 10), Inst(0, j)) :
            j \in 0..MaxJitter}
    \cup {InstAdd(synodicMonth, Inst(0, j)) : j \in (-MaxJitter)..MaxJitter}
    \cup {Inst(14, 0), Inst(29, 0)}

MoonInputs ==
    {InstAdd(newMoonDates[i], o) : i \in 1..Len(newMoonDates), o \in MoonProbeOffsets}
    \cup {ToInst(t) : t \in LookupDates}

\* Half the day length of a winter day, 4 h 50 min.
BaseHalfDay == 17400000

\* The equation of centre stays within 1.935 degrees.
MaxCenter == 1935

CenterInputs == {-MaxCenter, 0, MaxCenter}

\* The hour angle of sunrise goes from 0 (offset 0) to 180 degrees (12 hours).
HourAngleOffsets ==
    {2 * BaseHalfDay + s : s \in 0..MaxSkew} \cup {0, 1, 24 * HOUR_MS}

SunCases ==
    {[polar |-> TRUE, offset2 |-> 0, center |-> c] : c \in CenterInputs}
    \cup {[polar |-> FALSE, offset2 |-> o, center |-> c] :
            o \in HourAngleOffsets, c \in CenterInputs}

Tokyo == Zone("Asia/Tokyo", 9 * HOUR_MS)

Utc == Zone("Etc/UTC", 0)

TokyoStation == 139 * LON_UNITS_PER_DEG + 368160

\* A host on UTC and a host on Japanese time, with the two hour cycles.
AggHosts == {Host(0, 0), Host(9 * HOUR_MS, 24)}

AggLocations == {Location(TokyoStation, Tokyo), Location(0, Utc)}

HalfDayOf(sun) == IF sun.polar THEN 6 * HOUR_MS ELSE sun.offset2 \div 2

\* Times of day around dawn, sunrise, sunset and dusk, and two far from them.
AggTimesOfDay(sun) ==
    LET noon == 12 * HOUR_MS
        bases == {noon - HalfDayOf(sun) - MUTSU_MARGIN_MS, noon - HalfDayOf(sun),
                  noon + HalfDayOf(sun), noon + HalfDayOf(sun) + MUTSU_MARGIN_MS,
                  noon, 1000}
    IN  {((b \div 1000) + k) * 1000 + j : b \in bases, k \in -1..1, j \in 0..MaxJitter}

\* The instants of calculateEdoTime lie on day 1 of the window; a zone shift
\* moves the base date into day 2.
AggDates(sun) == {DAY_MS + t : t \in AggTimesOfDay(sun)}

---------------------------------------------------------------------------
(* Inputs of getSolarTerm                                                  *)

\* Whole turns below -360 and above 720 degrees that the longitudes reach.
MaxTurns == 1

\* The fine part of the longitudes next to zero goes from -MaxTiny to MaxTiny.
MaxTiny == 3

\* Every band boundary and a tenth of a degree on each side of it, and the
\* doubles next to zero.
LongitudeInputs ==
    {Num(150 * k + j, 0) : k \in (-24 * MaxTurns)..(24 * (MaxTurns + 1)), j \in -1..1}
    \cup {Num(0, t) : t \in (-MaxTiny)..MaxTiny}

---------------------------------------------------------------------------
(* Inputs of getSolarLongitude                                             *)

\* The instants lie up to MaxYears years before and after the epoch.
MaxYears == 2

\* The mean longitude passes a multiple of 360 about 80.7 days after the
\* epoch, and every 365.24 days before and after that.
SolarLongitudeDates ==
    {InstAdd(j2000, Inst(365 * y + d, h * HOUR_MS)) :
        y \in (-MaxYears)..MaxYears, d \in 78..83, h \in 0..23}
    \cup {InstAdd(j2000, Inst(365 * y + d, 0)) :
        y \in (-MaxYears)..MaxYears, d \in {0, 182}}
    \cup {ToInst(t) : t \in LookupDates}

---------------------------------------------------------------------------
(* Inputs of getNoonInTimeZone, getSolarNoon and getSunriseSunset          *)

\* The zones run from UTC-12 to UTC+14 in steps of half an hour, with two
\* offsets of 45 minutes past the hour (UTC+5:45 and UTC+13:45).
MaxWestHalfHours == 24

MaxZoneHalfHours == 28

ZoneOffsets ==
    {k * 30 * MINUTE_MS : k \in (-MaxWestHalfHours)..MaxZoneHalfHours}
    \cup {5 * HOUR_MS + 45 * MINUTE_MS, 13 * HOUR_MS + 45 * MINUTE_MS}

Zones ==
    {IF o = Tokyo.offset THEN Tokyo ELSE Zone("fixed offset", o) : o \in ZoneOffsets}

Hosts ==
    {Host(o, m) : o \in {-5 * HOUR_MS, 0, 9 * HOUR_MS}, m \in {0, 24}}

\* The civil days of the window as year, month, day.
CivilDates ==
    {[year |-> getFullYear(d * DAY_MS), month |-> getMonth(d * DAY_MS) + 1,
      day |-> getDate(d * DAY_MS)] : d \in 0..MaxDay}

\* The equation of time stays within 17 minutes; in half milliseconds.
MaxEot2 == 2040000

EotInputs == {-MaxEot2, 0, 1, MaxEot2}

\* Longitudes: the standard meridian, Tokyo, and a degree, a tenth of a degree
\* and 1/480000 degree east and west of Tokyo.
Longitudes ==
    {JST_STANDARD_MERIDIAN_DEG * LON_UNITS_PER_DEG}
    \cup {TokyoStation + e : e \in {0, 1, -1, LON_UNITS_PER_DEG \div 10,
                                    LON_UNITS_PER_DEG, -LON_UNITS_PER_DEG}}

SolarNoonZones == {Tokyo, Utc, Zone("fixed offset", -5 * HOUR_MS)}

\* Day 0 is left out: the instants stay after the origin of the window.
SolarNoonDates == {d \in CivilDates : CivilDayIndex(d.year, d.month, d.day) >= 1}

---------------------------------------------------------------------------
(* Behaviour                                                               *)

\* No component is mounted while the core is exercised.
HookUnmounted ==
    /\ locationProp = Undefined
    /\ loc = DEFAULT_LOCATION
    /\ locEffectDue = FALSE
    /\ geolocation = FALSE
    /\ positionRequests = {}
    /\ retryTimers = {}
    /\ effectRun = 0
    /\ errors = 0
    /\ lastSetLoc = SetLocCall("initial", 0, DEFAULT_LOCATION)

DisplayUnmounted ==
    /\ displayLoc = Undefined
    /\ placeNameState = PlaceNameState("idle", "", 0)
    /\ displayEffectDue = FALSE
    /\ displayRun = 0
    /\ geocodeCalls = {}
    /\ cache = <<>>
    /\ returned = <<>>
    /\ firstNames = <<>>

\* Nothing has been logged and debug mode is off.
LogUnused ==
    /\ logBuffer = <<>>
    /\ debug = FALSE
    /\ clock = 0
    /\ logged = <<>>

Init ==
    /\ op = "idle"
    /\ arg = <<>>
    /\ res = <<>>
    /\ \E ds \in Datasets :
          /\ LUNAR_CALENDAR_MAP = parseLunarCalendarCSV(ds.lunar)
          /\ newMoonDates = ds.moons
    /\ HookUnmounted
    /\ DisplayUnmounted
    /\ LogUnused

\* The caller takes the result; the next call starts from nothing but the
\* tables.
Return ==
    /\ op # "idle"
    /\ op' = "idle"
    /\ arg' = <<>>
    /\ res' = <<>>
    /\ UNCHANGED <<LUNAR_CALENDAR_MAP, newMoonDates, uiVars>>

CallGetTemporalTime ==
    /\ op = "idle"
    /\ \E akeMutsu \in DawnSet, kureMutsu \in DuskSet, prevKureMutsu \in PrevDuskSet :
        \E now \in NowSet(akeMutsu, kureMutsu, prevKureMutsu) :
          /\ op' = "getTemporalTime"
          /\ arg' = [akeMutsu |-> akeMutsu, kureMutsu |-> kureMutsu, now |-> now,
                     prevKureMutsu |-> prevKureMutsu]
          /\ res' = getTemporalTime(akeMutsu, kureMutsu, now, prevKureMutsu)
    /\ UNCHANGED <<LUNAR_CALENDAR_MAP, newMoonDates, uiVars>>

CallGetTemporalTime3 ==
    /\ op = "idle"
    /\ \E akeMutsu \in DawnSet, kureMutsu \in DuskSet :
        \E now \in NowSet(akeMutsu, kureMutsu, Undefined) :
          /\ op' = "getTemporalTime3"
          /\ arg' = [akeMutsu |-> akeMutsu, kureMutsu |-> kureMutsu, now |-> now]
          /\ res' = getTemporalTime3(akeMutsu, kureMutsu, now)
    /\ UNCHANGED <<LUNAR_CALENDAR_MAP, newMoonDates, uiVars>>

CallGetLunarCalendarData ==
    /\ op = "idle"
    /\ \E date \in LookupDates :
          /\ op' = "getLunarCalendarData"
          /\ arg' = [date |-> date]
          /\ res' = [data |-> getLunarCalendarData(date)]
    /\ UNCHANGED <<LUNAR_CALENDAR_MAP, newMoonDates, uiVars>>

CallGetLunarDate ==
    /\ op = "idle"
    /\ \E date \in LookupDates :
          /\ op' = "getLunarDate"
          /\ arg' = [date |-> date]
          /\ res' = getLunarDate(date)
    /\ UNCHANGED <<LUNAR_CALENDAR_MAP, newMoonDates, uiVars>>

CallGetRokuyo ==
    /\ op = "idle"
    /\ \E date \in LookupDates :
          /\ op' = "getRokuyo"
          /\ arg' = [date |-> date]
          /\ res' = getRokuyo(date)
    /\ UNCHANGED <<LUNAR_CALENDAR_MAP, newMoonDates, uiVars>>

CallGetMoonAgeConsuming ==
    /\ op = "idle"
    /\ \E date \in MoonInputs :
          /\ op' = "getMoonAge"
          /\ arg' = [date |-> date]
          /\ res' = getMoonAge(date)
    /\ newMoonDates' = SubSeq(newMoonDates, 1, Len(newMoonDates) - 1)
    /\ UNCHANGED <<LUNAR_CALENDAR_MAP, uiVars>>

CallGetMoonAge ==
    /\ op = "idle"
    /\ \E date \in MoonInputs :
          /\ op' = "getMoonAge"
          /\ arg' = [date |-> date]
          /\ res' = getMoonAge(date)
    /\ UNCHANGED <<LUNAR_CALENDAR_MAP, newMoonDates, uiVars>>

CallCalculateEdoTime ==
    /\ op = "idle"
    /\ \E sun \in SunCases, location \in AggLocations, host \in AggHosts :
        \E date \in AggDates(sun) :
          /\ op' = "calculateEdoTime"
          /\ arg' = [date |-> date, location |-> location, host |-> host,
                     sun |-> sun]
          /\ res' = calculateEdoTime(date, location, host, sun)
    /\ UNCHANGED <<LUNAR_CALENDAR_MAP, newMoonDates, uiVars>>

CallGetSunriseSunset ==
    /\ op = "idle"
    /\ \E date \in LookupDates, sun \in SunCases :
          /\ op' = "getSunriseSunset"
          /\ arg' = [date |-> date, sun |-> sun]
          /\ res' = getSunriseSunset(date, sun)
    /\ UNCHANGED <<LUNAR_CALENDAR_MAP, newMoonDates, uiVars>>

CallGetNoonInTimeZone ==
    /\ op = "idle"
    /\ \E d \in CivilDates, timeZone \in Zones, host \in Hosts :
          /\ op' = "getNoonInTimeZone"
          /\ arg' = [year |-> d.year, month |-> d.month, day |-> d.day,
                     timeZone |-> timeZone, host |-> host]
          /\ res' = [noon |-> getNoonInTimeZone(d.year, d.month, d.day, timeZone, host)]
    /\ UNCHANGED <<LUNAR_CALENDAR_MAP, newMoonDates, uiVars>>

CallGetSolarNoon ==
    /\ op = "idle"
    /\ \E d \in SolarNoonDates, lon \in Longitudes, tz \in SolarNoonZones,
          host \in AggHosts, eot2 \in EotInputs :
          /\ op' = "getSolarNoon"
          /\ arg' = [year |-> d.year, month |-> d.month, day |-> d.day,
                     location |-> Location(lon, tz), host |-> host, eot2 |-> eot2]
          /\ res' = [solarNoon |->
                       getSolarNoon(d.year, d.month, d.day, Location(lon, tz), host, eot2)]
    /\ UNCHANGED <<LUNAR_CALENDAR_MAP, newMoonDates, uiVars>>

CallGetSolarLongitude ==
    /\ op = "idle"
    /\ \E date \in SolarLongitudeDates, center \in CenterInputs :
          /\ op' = "getSolarLongitude"
          /\ arg' = [date |-> date, center |-> center]
          /\ res' = [solarLongitude |-> getSolarLongitude(date, center)]
    /\ UNCHANGED <<LUNAR_CALENDAR_MAP, newMoonDates, uiVars>>

CallGetSolarTerm ==
    /\ op = "idle"
    /\ \E solarLongitude \in LongitudeInputs :
          /\ op' = "getSolarTerm"
          /\ arg' = [solarLongitude |-> solarLongitude]
          /\ res' = [term |-> getSolarTerm(solarLongitude)]
    /\ UNCHANGED <<LUNAR_CALENDAR_MAP, newMoonDates, uiVars>>

\* SolarTermTable calls it with the longitude of each row of SOLAR_TERMS.
CallGetSekkiForSolarTerm ==
    /\ op = "idle"
    /\ \E i \in 1..Len(SOLAR_TERMS) :
          /\ op' = "getSekkiForSolarTerm"
          /\ arg' = [longitude |-> SOLAR_TERMS[i].longitude]
          /\ res' = getSekkiForSolarTerm(SOLAR_TERMS[i].longitude)
    /\ UNCHANGED <<LUNAR_CALENDAR_MAP, newMoonDates, uiVars>>

Next ==
    \/ CallGetTemporalTime
    \/ CallGetTemporalTime3
    \/ CallGetLunarCalendarData
    \/ CallGetLunarDate
    \/ CallGetRokuyo
    \/ CallGetMoonAge
    \/ CallCalculateEdoTime
    \/ CallGetSunriseSunset
    \/ CallGetNoonInTimeZone
    \/ CallGetSolarNoon
    \/ CallGetSolarLongitude
    \/ CallGetSolarTerm
    \/ CallGetSekkiForSolarTerm
    \/ Return

Spec == Init /\ [][Next]_vars

---------------------------------------------------------------------------
(* Behaviour of useEdoTime                                                 *)

\* The location props a parent passes, and the positions the device reports.
PropLocations == {Location(0, Utc), Location(TokyoStation + LON_UNITS_PER_DEG, Tokyo)}

GeoPositions ==
    {Location(JST_STANDARD_MERIDIAN_DEG * LON_UNITS_PER_DEG, Tokyo),
     Location(TokyoStation, Tokyo)}

\* The location effect runs at most this many times.
MaxEffectRuns == 3

\* The core is not exercised while the hook is.
CoreIdle ==
    /\ op = "idle"
    /\ arg = <<>>
    /\ res = <<>>
    /\ LUNAR_CALENDAR_MAP = <<>>
    /\ newMoonDates = <<>>

\* The first render: useState(location || DEFAULT_LOCATION); the effects are
\* due after it.
HookInit ==
    /\ CoreIdle
    /\ locationProp \in {Undefined} \cup {Some(l) : l \in PropLocations}
    /\ loc = (IF locationProp # Undefined THEN ValueOf(locationProp)
              ELSE DEFAULT_LOCATION)
    /\ locEffectDue = TRUE
    /\ geolocation \in BOOLEAN
    /\ positionRequests = {}
    /\ retryTimers = {}
    /\ effectRun = 0
    /\ errors = 0
    /\ lastSetLoc = SetLocCall("initial", 0, loc)
    /\ DisplayUnmounted
    /\ LogUnused

\* The parent renders the hook with another value of the location prop (a
\* location where there was none, none where there was one): the dependency
\* of the location effect has changed.
Render ==
    /\ ~locEffectDue
    /\ effectRun < MaxEffectRuns
    /\ \E l \in {Undefined} \cup {Some(x) : x \in PropLocations} :
          /\ l # locationProp
          /\ locationProp' = l
    /\ locEffectDue' = TRUE
    /\ UNCHANGED <<loc, geolocation, positionRequests, retryTimers, effectRun,
                   errors, lastSetLoc, notHookVars>>

\* fetchLocation(retryCount) of the effect run `run`: without
\* navigator.geolocation it sets the default, otherwise it starts a
\* getCurrentPosition.
FetchLocation(run, retryCount, requests) ==
    IF ~geolocation
    THEN /\ loc' = DEFAULT_LOCATION
         /\ lastSetLoc' = SetLocCall("fallback", run, DEFAULT_LOCATION)
         /\ positionRequests' = requests
    ELSE /\ positionRequests' = requests \cup {Pending(run, retryCount)}
         /\ UNCHANGED <<loc, lastSetLoc>>

\* The effect with the dependency [location].  It returns no cleanup
\* function: what an earlier run started stays pending.
LocationEffect ==
    /\ locEffectDue
    /\ locEffectDue' = FALSE
    /\ effectRun' = effectRun + 1
    /\ errors' = 0
    /\ IF locationProp # Undefined
       THEN /\ loc' = ValueOf(locationProp)
            /\ lastSetLoc' = SetLocCall("prop", effectRun', ValueOf(locationProp))
            /\ UNCHANGED positionRequests
       ELSE FetchLocation(effectRun', 0, positionRequests)
    /\ UNCHANGED <<locationProp, geolocation, retryTimers, notHookVars>>

\* The success callback of getCurrentPosition.
GeolocationSuccess ==
    /\ \E r \in positionRequests, pos \in GeoPositions :
          /\ positionRequests' = positionRequests \ {r}
          /\ loc' = pos
          /\ lastSetLoc' = SetLocCall("geolocation", r.run, pos)
    /\ UNCHANGED <<locationProp, locEffectDue, geolocation, retryTimers,
                   effectRun, errors, notHookVars>>

\* The error callback without the retry: the variant the mutation uses.
GeolocationErrorNoRetry ==
    /\ \E r \in positionRequests :
          /\ positionRequests' = positionRequests \ {r}
          /\ errors' = IF r.run = effectRun THEN errors + 1 ELSE errors
          /\ loc' = DEFAULT_LOCATION
          /\ lastSetLoc' = SetLocCall("fallback", r.run, DEFAULT_LOCATION)
          /\ UNCHANGED retryTimers
    /\ UNCHANGED <<locationProp, locEffectDue, geolocation, effectRun, notHookVars>>

\* The error callback of getCurrentPosition: a retry timer while
\* retryCount < MAX_RETRIES, the default otherwise.
GeolocationError ==
    /\ \E r \in positionRequests :
          /\ positionRequests' = positionRequests \ {r}
          /\ errors' = IF r.run = effectRun THEN errors + 1 ELSE errors
          /\ IF r.retryCount < MAX_RETRIES
             THEN /\ retryTimers' = retryTimers \cup {Pending(r.run, r.retryCount + 1)}
                  /\ UNCHANGED <<loc, lastSetLoc>>
             ELSE /\ loc' = DEFAULT_LOCATION
                  /\ lastSetLoc' = SetLocCall("fallback", r.run, DEFAULT_LOCATION)
                  /\ UNCHANGED retryTimers
    /\ UNCHANGED <<locationProp, locEffectDue, geolocation, effectRun, notHookVars>>

\* setTimeout(() => fetchLocation(retryCount + 1), RETRY_DELAY_MS) fires.
RetryTimer ==
    /\ \E t \in retryTimers :
          /\ retryTimers' = retryTimers \ {t}
          /\ FetchLocation(t.run, t.retryCount, positionRequests)
    /\ UNCHANGED <<locationProp, locEffectDue, geolocation, effectRun, errors,
                   notHookVars>>

HookNext ==
    \/ Render
    \/ LocationEffect
    \/ GeolocationSuccess
    \/ GeolocationError
    \/ RetryTimer

\* React runs an effect that is due; the browser calls one of the two
\* callbacks of every getCurrentPosition; a timer that was set fires.
HookSpec ==
    /\ HookInit
    /\ [][HookNext]_vars
    /\ WF_vars(LocationEffect)
    /\ WF_vars(GeolocationSuccess \/ GeolocationError)
    /\ WF_vars(RetryTimer)

---------------------------------------------------------------------------
(* getTemporalTime: the koku that is current                               *)

IsTemporal == op = "getTemporalTime"

DayDuration == arg.kureMutsu - arg.akeMutsu

NightDuration == DAY_MS - DayDuration

InDay == IsTemporal /\ arg.akeMutsu <= arg.now /\ arg.now < arg.kureMutsu

\* The exact (untruncated) koku interval, as sixths: [6o + (k-1)d, 6o + kd).
InExactKoku(origin, duration, koku, now) ==
    /\ 6 * origin + (koku - 1) * duration <= 6 * now
    /\ 6 * now < 6 * origin + koku * duration

\* start and end are the exact bounds with the fraction of a millisecond
\* dropped.
TruncatedBounds(origin, duration, r) ==
    /\ 6 * r.start <= 6 * origin + (r.koku - 1) * duration
    /\ 6 * origin + (r.koku - 1) * duration < 6 * r.start + 6
    /\ 6 * r.end <= 6 * origin + r.koku * duration
    /\ 6 * origin + r.koku * duration < 6 * r.end + 6

ExactBounds(origin, duration, r) ==
    /\ 6 * r.start = 6 * origin + (r.koku - 1) * duration
    /\ 6 * r.end = 6 * origin + r.koku * duration

\* C1: for every dawn < dusk and every instant now (an instant before dawn
\* with no previous dusk included), the interval returned by getTemporalTime
\* contains now: start <= now < end.
C1_ReturnsCurrentKoku ==
    op \in {"getTemporalTime", "getTemporalTime3"}
        => res.start <= arg.now /\ arg.now < res.end

\* C2, as stated: in the day the result is period = day, a koku k in 1..6 and
\* exactly the interval [D + (k-1)(K-D)/6, D + k(K-D)/6), which contains now.
C2_DayIntervalExact ==
    InDay => /\ res.period = "day"
             /\ res.koku \in 1..6
             /\ ExactBounds(arg.akeMutsu, DayDuration, res)
             /\ res.start <= arg.now /\ arg.now < res.end

\* C2, amended: in the day the result is period = day and the koku k in 1..6
\* whose exact interval [D + (k-1)(K-D)/6, D + k(K-D)/6) contains now; start
\* and end are those bounds truncated to whole milliseconds (the bounds
\* themselves when K-D is a multiple of 6 ms), so start <= now <= end; the six
\* returned intervals are contiguous, ordered, begin at D and end at K; and
\* now = D gives day, koku 1, start = D.
C2_DayKoku ==
    InDay =>
      /\ res.period = "day"
      /\ res.koku \in 1..6
      /\ InExactKoku(arg.akeMutsu, DayDuration, res.koku, arg.now)
      /\ TruncatedBounds(arg.akeMutsu, DayDuration, res)
      /\ res.start <= arg.now /\ arg.now <= res.end
      /\ res.start < res.end
      /\ DayDuration % 6 = 0 =>
            ExactBounds(arg.akeMutsu, DayDuration, res) /\ arg.now < res.end
      /\ res.koku = 1 => res.start = arg.akeMutsu
      /\ res.koku = 6 => res.end = arg.kureMutsu
      /\ arg.now = arg.akeMutsu => res.koku = 1 /\ res.start = arg.akeMutsu
      /\ \A n \in NowSet(arg.akeMutsu, arg.kureMutsu, arg.prevKureMutsu) :
            (arg.akeMutsu <= n /\ n < arg.kureMutsu) =>
              LET r == getTemporalTime(arg.akeMutsu, arg.kureMutsu, n,
                                       arg.prevKureMutsu)
              IN  /\ r.koku = res.koku => r.start = res.start /\ r.end = res.end
                  /\ r.koku = res.koku + 1 => r.start = res.end
                  /\ n <= arg.now => r.koku <= res.koku

\* A day whose length is not a multiple of 6 ms, at the millisecond that the
\* truncated end of koku 4 names: the instant is still in koku 4.
C2_Witness ==
    /\ InDay
    /\ DayDuration % 6 # 0
    /\ res.koku = 4
    /\ arg.now = res.end

InPrevNight ==
    /\ IsTemporal
    /\ arg.prevKureMutsu # Undefined
    /\ arg.now < arg.akeMutsu
    /\ ValueOf(arg.prevKureMutsu) <= arg.now

PrevDusk == ValueOf(arg.prevKureMutsu)

PrevNightDuration == arg.akeMutsu - PrevDusk

\* C3, as stated: before dawn with a previous dusk P <= now, the result is
\* night, koku = floor(6(now - P)/(dawn - P)) + 1, start <= now < end, koku 1
\* starts at P and koku 6 ends exactly at dawn.
C3_PrevNightContainsNow ==
    InPrevNight =>
      /\ res.period = "night"
      /\ res.koku = ((6 * (arg.now - PrevDusk)) \div PrevNightDuration) + 1
      /\ res.start <= arg.now /\ arg.now < res.end
      /\ res.koku = 1 => res.start = PrevDusk
      /\ res.koku = 6 => res.end = arg.akeMutsu

\* C3, amended: before dawn with a previous dusk P <= now, the result is night
\* with [P, dawn) split into six equal koku: koku = floor(6(now - P)/(dawn -
\* P)) + 1 is in 1..6 and its exact interval contains now; start and end are
\* the exact bounds truncated to whole milliseconds, so start <= now <= end
\* (now < end when dawn - P is a multiple of 6 ms); koku 1 starts at P and
\* koku 6 ends exactly at dawn.
C3_PrevNightKoku ==
    InPrevNight =>
      /\ res.period = "night"
      /\ res.koku = ((6 * (arg.now - PrevDusk)) \div PrevNightDuration) + 1
      /\ res.koku \in 1..6
      /\ InExactKoku(PrevDusk, PrevNightDuration, res.koku, arg.now)
      /\ TruncatedBounds(PrevDusk, PrevNightDuration, res)
      /\ res.start <= arg.now /\ arg.now <= res.end
      /\ PrevNightDuration % 6 = 0 =>
            ExactBounds(PrevDusk, PrevNightDuration, res) /\ arg.now < res.end
      /\ res.koku = 1 => res.start = PrevDusk
      /\ res.koku = 6 => res.end = arg.akeMutsu

\* A night [P, dawn) whose length is not a multiple of 6 ms, at the
\* millisecond that the truncated end of koku 2 names.
C3_Witness ==
    /\ InPrevNight
    /\ PrevNightDuration % 6 # 0
    /\ res.koku = 2
    /\ arg.now = res.end

InNight == IsTemporal /\ arg.now >= arg.kureMutsu

InNightRange == InNight /\ arg.now < arg.kureMutsu + NightDuration

\* C4, as stated: from dusk on the result is night, and for every now in
\* [dusk, dusk + (24h - (dusk - dawn))) koku = floor((now - dusk) /
\* nightKokuDuration) + 1 and start <= now < end; now = dusk gives night
\* koku 1 with start = dusk.
C4_NightContainsNow ==
    /\ InNight => res.period = "night"
    /\ InNightRange =>
         /\ res.koku = ((6 * (arg.now - arg.kureMutsu)) \div NightDuration) + 1
         /\ res.start <= arg.now /\ arg.now < res.end
    /\ (IsTemporal /\ arg.now = arg.kureMutsu) =>
         res.period = "night" /\ res.koku = 1 /\ res.start = arg.kureMutsu

\* C4, amended: from dusk on the result is night; for every now in [dusk,
\* dusk + (24h - (dusk - dawn))) koku = floor((now - dusk) /
\* nightKokuDuration) + 1 is in 1..6 and its exact interval contains now;
\* start and end are the exact bounds truncated to whole milliseconds, so
\* start <= now <= end (now < end when the night length is a multiple of
\* 6 ms); koku 6 ends at dusk + (24h - (dusk - dawn)); now = dusk gives night
\* koku 1 with start = dusk.
C4_NightKoku ==
    /\ InNight => res.period = "night"
    /\ InNightRange =>
         /\ res.koku = ((6 * (arg.now - arg.kureMutsu)) \div NightDuration) + 1
         /\ res.koku \in 1..6
         /\ InExactKoku(arg.kureMutsu, NightDuration, res.koku, arg.now)
         /\ TruncatedBounds(arg.kureMutsu, NightDuration, res)
         /\ res.start <= arg.now /\ arg.now <= res.end
         /\ NightDuration % 6 = 0 =>
               ExactBounds(arg.kureMutsu, NightDuration, res) /\ arg.now < res.end
         /\ res.koku = 6 => res.end = arg.kureMutsu + NightDuration
    /\ (IsTemporal /\ arg.now = arg.kureMutsu) =>
         res.period = "night" /\ res.koku = 1 /\ res.start = arg.kureMutsu

\* A night whose length is not a multiple of 6 ms, at the millisecond that
\* the truncated end of koku 3 names.
C4_Witness ==
    /\ InNightRange
    /\ NightDuration % 6 # 0
    /\ res.koku = 3
    /\ arg.now = res.end

\* C5: for every input, an instant earlier than the supplied previous dusk
\* or later than the end of the night included, the koku returned by
\* getTemporalTime is an integer in 1..6.
C5_KokuInRange == IsTemporal => res.koku \in 1..6

---------------------------------------------------------------------------
(* calculateEdoTime: the aggregate                                         *)

IsAggregate == op = "calculateEdoTime" /\ ~res.threw

BaseDate == toTimeZone(arg.date, arg.location.tz.offset - arg.host.offset)

\* The "YYYY-MM-DD" key of each civil day of the window, day 0 first.
CivilKeys ==
    <<"2025-12-30", "2025-12-31", "2026-01-01", "2026-01-02", "2026-01-03",
      "2026-01-04">>

CivilKey(date) == CivilKeys[DayIndex(date) + 1]

\* C6: in the aggregate the temporal-time partition is anchored on the
\* akeMutsu / kureMutsu the aggregate reports: period = day exactly when
\* akeMutsu <= currentTime < kureMutsu, day koku 1 starts at akeMutsu and day
\* koku 6 ends at kureMutsu.
C6_PartitionOnReportedDawnDusk ==
    IsAggregate =>
      LET v == res.value
      IN  /\ v.temporalTime.period = "day"
               <=> (v.akeMutsu <= v.currentTime /\ v.currentTime < v.kureMutsu)
          /\ (v.temporalTime.period = "day" /\ v.temporalTime.koku = 1)
               => v.temporalTime.start = v.akeMutsu
          /\ (v.temporalTime.period = "day" /\ v.temporalTime.koku = 6)
               => v.temporalTime.end = v.kureMutsu

\* C7: when the civil date of the instant is absent from the lunar / rokuyo
\* table, calculateEdoTime still returns an aggregate whose sunrise, sunset,
\* temporal time and moon age are those of a normal call.
C7_AggregateWithoutLunarRow ==
    (op = "calculateEdoTime" /\ CivilKey(BaseDate) \notin DOMAIN LUNAR_CALENDAR_MAP)
      => /\ ~res.threw
         /\ res.value.sunrise = getSunriseSunset(BaseDate, arg.sun).sunrise
         /\ res.value.sunset = getSunriseSunset(BaseDate, arg.sun).sunset
         /\ res.value.temporalTime =
              getTemporalTime(res.value.sunrise, res.value.sunset, BaseDate, Undefined)
         /\ res.value.moonAge = getMoonAge(ToInst(BaseDate)).moonAge

---------------------------------------------------------------------------
(* getLunarDate, getRokuyo                                                 *)

IsLookup == op \in {"getLunarDate", "getRokuyo"}

\* C8: getLunarDate and getRokuyo succeed exactly for the civil dates whose
\* YYYY-MM-DD key is in the table and return that row's values; for the same
\* date both succeed or both fail; for an absent key (before the covered
\* span, after it, or in a gap) they throw an Error with a non-empty reason
\* and return no value.
C8_LookupExactlyTabulated ==
    IsLookup =>
      LET key == CivilKey(arg.date)
          row == LUNAR_CALENDAR_MAP[key]
      IN  /\ res.threw <=> key \notin DOMAIN LUNAR_CALENDAR_MAP
          /\ getLunarDate(arg.date).threw = getRokuyo(arg.date).threw
          /\ res.threw => DOMAIN res = {"threw", "error"} /\ res.error # ""
          /\ (~res.threw /\ op = "getLunarDate")
               => res.value = [year |-> row.lunarYear, month |-> row.lunarMonth,
                               day |-> row.lunarDay]
          /\ (~res.threw /\ op = "getRokuyo") => res.value = row.rokuyo

\* A lookup that fails in a gap: the days before and after are tabulated.
C8_Witness ==
    /\ op = "getLunarDate"
    /\ res.threw
    /\ DayIndex(arg.date) >= 1
    /\ CivilKeys[DayIndex(arg.date)] \in DOMAIN LUNAR_CALENDAR_MAP
    /\ CivilKeys[DayIndex(arg.date) + 2] \in DOMAIN LUNAR_CALENDAR_MAP

---------------------------------------------------------------------------
(* getMoonAge                                                              *)

IsMoonAge == op = "getMoonAge"

Tabulated(date) == \E i \in 1..Len(newMoonDates) : newMoonDates[i] = date

\* n is the greatest tabulated new moon that is <= date.
GreatestNewMoonUpTo(n, date) ==
    /\ Tabulated(n)
    /\ InstLE(n, date)
    /\ \A j \in 1..Len(newMoonDates) :
          InstLE(newMoonDates[j], date) => InstLE(newMoonDates[j], n)

\* C9: at every tabulated new moon getMoonAge returns moonAge = 0 with no
\* error; wherever it returns no error, the age counts from the greatest
\* tabulated new moon that is <= the instant (less whole synodic months).
C9_NewMoonIsAgeZero ==
    IsMoonAge =>
      /\ Tabulated(arg.date) => res.moonAge = ZeroDays /\ res.error = Undefined
      /\ res.error = Undefined =>
           \E i \in 1..Len(newMoonDates) :
              /\ GreatestNewMoonUpTo(newMoonDates[i], arg.date)
              /\ \/ InstSub(arg.date, newMoonDates[i]) = res.moonAge
                 \/ InstSub(arg.date, newMoonDates[i])
                      = InstAdd(res.moonAge, synodicMonth)

\* The instant of a new moon that has an earlier new moon in the table.
C9_Witness ==
    /\ IsMoonAge
    /\ Len(newMoonDates) >= 2
    /\ arg.date = newMoonDates[2]
    /\ res.moonAge = ZeroDays

\* C10: for every instant inside the tabulated coverage getMoonAge returns
\* 0 <= moonAge < 29.530588 days, whatever the spacing of the new moons.
C10_MoonAgeBelowPhaseMonth ==
    (IsMoonAge /\ res.error = Undefined) =>
      /\ InstLE(ZeroDays, res.moonAge)
      /\ \/ res.moonAge.d < PhaseMonthDays
         \/ /\ res.moonAge.d = PhaseMonthDays
            /\ 10 * res.moonAge.ms < PhaseMonthTenthMs

\* The three error cases of getMoonAge.
TableEmpty == Len(newMoonDates) = 0

BeforeFirst(date) == ~TableEmpty /\ InstLT(date, newMoonDates[1])

LastPlusMonth == InstAdd(newMoonDates[Len(newMoonDates)], synodicMonth)

AfterLast(date) == ~TableEmpty /\ InstLT(LastPlusMonth, date)

\* C11: getMoonAge returns an error exactly when the table is empty, the
\* instant is before the first tabulated new moon, or the instant is later
\* than the last tabulated new moon + 29.53059 days; then moonAge is 0 and the
\* reason is a non-empty string, and the reason of a before-range call differs
\* from the reason of an after-range call; at the first new moon and at last +
\* 29.53059 days exactly there is no error.
C11_MoonAgeErrorCases ==
    IsMoonAge =>
      /\ res.error # Undefined
           <=> (TableEmpty \/ BeforeFirst(arg.date) \/ AfterLast(arg.date))
      /\ res.error # Undefined
           => /\ res.moonAge = ZeroDays
              /\ ValueOf(res.error) \in STRING
              /\ ValueOf(res.error) # ""
      /\ BeforeFirst(arg.date) =>
           \A d \in MoonInputs :
              AfterLast(d) => getMoonAge(d).error # res.error
      /\ (~TableEmpty /\ arg.date = newMoonDates[1]) => res.error = Undefined
      /\ (~TableEmpty /\ arg.date = LastPlusMonth) => res.error = Undefined

\* The last instant of the coverage: last new moon + 29.53059 days exactly.
C11_Witness ==
    /\ IsMoonAge
    /\ ~TableEmpty
    /\ arg.date = LastPlusMonth
    /\ res.error = Undefined

---------------------------------------------------------------------------
(* getSolarTerm, getSekkiForSolarTerm                                      *)

IsSolarTerm == op = "getSolarTerm"

\* The longitude is below a whole number of tenths by less than a tenth.
JustBelow(x) == x.t < 0

\* floor((L mod 360) / 15), the mod being the mathematical one.
BandOf(x) ==
    LET m == x.c % 3600
    IN  IF JustBelow(x) /\ m % 150 = 0
        THEN ((m \div 150) + 23) % 24
        ELSE m \div 150

\* floor(((L - 315) mod 360) / 5) mod 72, the mod being the mathematical one.
MicroSeasonIndex(x) ==
    LET m == (x.c - 3150) % 3600
    IN  IF JustBelow(x) /\ m % 50 = 0
        THEN ((m \div 50) + 71) % 72
        ELSE (m \div 50) % 72

TermAt(i) == SOLAR_TERMS[i].term

\* C12: for every longitude L, negative and >= 360 included, getSolarTerm
\* returns the term of the band [T, T+15) that holds L mod 360, that is
\* SOLAR_TERMS[floor((L mod 360)/15)]; 0 gives shunbun, 359.9 gives keichitsu,
\* the upper bound of a band belongs to the next term, and the loop always
\* returns (the fallback after it is never reached).
C12_TermOfBand ==
    IsSolarTerm =>
      /\ res.term = TermAt(BandOf(arg.solarLongitude) + 1)
      /\ MatchingTerms(arg.solarLongitude) # {}
      /\ arg.solarLongitude = Deg(0) => res.term = "shunbun"
      /\ arg.solarLongitude = Num(3599, 0) => res.term = "keichitsu"
      /\ arg.solarLongitude = Deg(15) => res.term = "seimei"

\* The position of the term among the 24, counted from risshun (315 degrees).
PositionFromRisshun(longitude) == ((longitude - 315) % 360) \div 15

TripleSet(triple) == {triple[n] : n \in 1..Len(triple)}

TripleOfTerm(term) ==
    LET i == CHOOSE j \in 1..Len(SOLAR_TERMS) : SOLAR_TERMS[j].term = term
    IN  TripleSet(getSekkiForSolarTerm(SOLAR_TERMS[i].longitude))

\* C13: for each of the 24 terms getSekkiForSolarTerm lists the micro-seasons
\* 3k, 3k+1, 3k+2, k being the position of the term counted from risshun; the
\* 24 triples are pairwise disjoint and cover 0..71; and for every longitude L
\* the micro-season index floor(((L - 315) mod 360)/5) mod 72 lies in the
\* triple of getSolarTerm(L).
C13_MicroSeasonNested ==
    /\ op = "getSekkiForSolarTerm" =>
         LET k == PositionFromRisshun(arg.longitude)
         IN  /\ res = <<3 * k, 3 * k + 1, 3 * k + 2>>
             /\ \A i \in 1..Len(SOLAR_TERMS) :
                   SOLAR_TERMS[i].longitude # arg.longitude =>
                     TripleOfTerm(TermAt(i)) \cap TripleSet(res) = {}
             /\ UNION {TripleOfTerm(TermAt(i)) : i \in 1..Len(SOLAR_TERMS)} = 0..71
    /\ IsSolarTerm => MicroSeasonIndex(arg.solarLongitude) \in TripleOfTerm(res.term)

---------------------------------------------------------------------------
(* getSolarLongitude                                                       *)

IsSolarLongitude == op = "getSolarLongitude"

\* L + C before the normalisation, in thousandths of a degree.
RawTrueLongitudeMilli ==
    MeanLongitudeMilli(InstSub(arg.date, j2000)) + arg.center

---------------------------------------------------------------------------
(* getSunriseSunset, getSolarNoon and the sun events of the aggregate      *)

\* The calendar date whose noon getSunriseSunset takes: the fields of the
\* base date on the host clock.
HostDateOf(date) ==
    [year |-> getFullYear(date), month |-> getMonth(date) + 1, day |-> getDate(date)]

\* getSolarNoon for the date and location of the aggregate, under a given
\* value of the equation of time.
SolarNoonOfAggregate(eot2) ==
    getSolarNoon(HostDateOf(BaseDate).year, HostDateOf(BaseDate).month,
                 HostDateOf(BaseDate).day, arg.location, arg.host, eot2)

\* The equation of time under which solar noon would be the middle of
\* sunrise and sunset, when it is within the range of the equation of time.
MidpointEot ==
    LET clockNoon == getNoonInTimeZone(HostDateOf(BaseDate).year,
                                       HostDateOf(BaseDate).month,
                                       HostDateOf(BaseDate).day,
                                       arg.location.tz, arg.host)
        needed == 2 * clockNoon
                    + LongitudeCorrection2(getStandardMeridianDeg(arg.location.tz),
                                           arg.location.lon)
                    - (res.value.sunrise + res.value.sunset)
    IN  {e \in {needed} : -MaxEot2 <= e /\ e <= MaxEot2}

\* C15: on a non-polar day the sunrise and sunset of getSunriseSunset are
\* symmetric about the solar noon that getSolarNoon returns for that date and
\* location (to the millisecond), so sunrise <= solar noon <= sunset; the
\* equation of time may be any value of its range.
C15_SymmetricAboutSolarNoon ==
    (IsAggregate /\ ~arg.sun.polar) =>
      \E eot2 \in EotInputs \cup MidpointEot :
         LET solarNoon == SolarNoonOfAggregate(eot2)
             before == solarNoon - res.value.sunrise
             after == res.value.sunset - solarNoon
         IN  /\ before - after \in -1..1
             /\ res.value.sunrise <= solarNoon
             /\ solarNoon <= res.value.sunset

\* C16: in the aggregate, in the non-polar case and in the polar-fallback
\* case alike, akeMutsu <= sunrise <= sunset <= kureMutsu.
C16_SunEventsOrdered ==
    IsAggregate =>
      /\ res.value.akeMutsu <= res.value.sunrise
      /\ res.value.sunrise <= res.value.sunset
      /\ res.value.sunset <= res.value.kureMutsu

\* An aggregate of the polar fallback.
C16_Witness ==
    /\ IsAggregate
    /\ arg.sun.polar
    /\ res.value.sunset - res.value.sunrise = 12 * HOUR_MS

IsSunriseSunset == op = "getSunriseSunset"

---------------------------------------------------------------------------
(* getNoonInTimeZone, the dates of calculateEdoTime, getSolarNoon          *)

\* The instant at which the wall clock of the zone shows 12:00 on a calendar
\* date.
CivilNoon(year, month, day, timeZone, host) ==
    CivilDayIndex(year, month, day) * DAY_MS + 12 * HOUR_MS
        - timeZone.offset + host.offset

\* C18: for every calendar date and every zone offset from UTC-12 to UTC+14,
\* getNoonInTimeZone returns the instant whose wall-clock time in the zone is
\* 12:00 on that same date.
C18_NoonOfSameDay ==
    op = "getNoonInTimeZone" =>
      res.noon = CivilNoon(arg.year, arg.month, arg.day, arg.timeZone, arg.host)

\* The civil day of an instant in the zone of the location.
CivilDayIn(date) == DayIndex(WallClock(date, arg.location.tz, arg.host))

\* C19: the calendar date on which calculateEdoTime anchors noonForCircle is
\* the civil date of the input instant in the zone of the location, which is
\* also the date of the lunar / rokuyo lookup and of sunrise and sunset.
C19_OneCalendarDate ==
    IsAggregate =>
      /\ DayIndex(BaseDate) = CivilDayIn(arg.date)
      /\ DayIndex(LocalNoon(BaseDate)) = CivilDayIn(arg.date)
      /\ CivilDayIn(res.value.noonForCircle) = CivilDayIn(arg.date)
      /\ getCalendarDateInTimeZone(BaseDate, arg.location.tz, arg.host)
           = HostDateOf(BaseDate)

IsSolarNoon == op = "getSolarNoon"

ClockNoon ==
    getNoonInTimeZone(arg.year, arg.month, arg.day, arg.location.tz, arg.host)

\* 4 * (135 - lon) minutes less the equation of time, in half milliseconds.
SolarOffset2 ==
    JST_STANDARD_MERIDIAN_DEG * LON_UNITS_PER_DEG - arg.location.lon - arg.eot2

SolarNoonAt(lon) ==
    getSolarNoon(arg.year, arg.month, arg.day, Location(lon, arg.location.tz),
                 arg.host, arg.eot2)

\* C20, as stated: getSolarNoon = clock noon + (4 (135 - lon) - EoT) minutes;
\* a location d degrees further east has its solar noon exactly 4d minutes
\* earlier; at lon = 135 the offset is -EoT; every zone uses the meridian 135.
C20_SolarNoonExact ==
    IsSolarNoon =>
      /\ 2 * res.solarNoon = 2 * ClockNoon + SolarOffset2
      /\ \A lon \in Longitudes :
            2 * (res.solarNoon - SolarNoonAt(lon)) = lon - arg.location.lon
      /\ arg.location.lon = JST_STANDARD_MERIDIAN_DEG * LON_UNITS_PER_DEG
            => 2 * res.solarNoon = 2 * ClockNoon - arg.eot2
      /\ getStandardMeridianDeg(arg.location.tz) = JST_STANDARD_MERIDIAN_DEG

\* C20, amended: getSolarNoon is clock noon + (4 (135 - lon) - EoT) minutes
\* with the fraction of a millisecond dropped; a location d degrees further
\* east has its solar noon 4d minutes earlier to within a millisecond, never
\* later, and exactly 4d minutes earlier when 4d minutes is a whole number of
\* milliseconds; at lon = 135 the offset is -EoT (truncated likewise); every
\* zone, Asia/Tokyo or not, uses the meridian 135.
C20_SolarNoonToTheMillisecond ==
    IsSolarNoon =>
      /\ 2 * res.solarNoon <= 2 * ClockNoon + SolarOffset2
      /\ 2 * ClockNoon + SolarOffset2 < 2 * res.solarNoon + 2
      /\ \A lon \in Longitudes :
            LET east == lon - arg.location.lon
                earlier == 2 * (res.solarNoon - SolarNoonAt(lon))
            IN  /\ earlier - east \in -1..1
                /\ east % 2 = 0 => earlier = east
                /\ east >= 0 => SolarNoonAt(lon) <= res.solarNoon
                /\ east >= 2 => SolarNoonAt(lon) < res.solarNoon
      /\ arg.location.lon = JST_STANDARD_MERIDIAN_DEG * LON_UNITS_PER_DEG
            => res.solarNoon = NewDate2(2 * ClockNoon - arg.eot2)
      /\ getStandardMeridianDeg(arg.location.tz) = JST_STANDARD_MERIDIAN_DEG

\* A location in a zone other than Asia/Tokyo, east of 135, with an equation
\* of time that is not a whole number of milliseconds.
C20_Witness ==
    /\ IsSolarNoon
    /\ arg.location.tz.name # "Asia/Tokyo"
    /\ arg.location.lon > JST_STANDARD_MERIDIAN_DEG * LON_UNITS_PER_DEG
    /\ arg.eot2 % 2 = 1
    /\ res.solarNoon < ClockNoon

---------------------------------------------------------------------------
(* The lunar table: leap months, labels, and the tables after load         *)

\* C21: the lunar date resolved for a civil date distinguishes a leap month
\* from the regular month with the same number: two dates whose rows differ
\* in the leap-month flag never resolve to the same lunar date.
C21_LeapMonthDistinguished ==
    (op = "getLunarDate" /\ ~res.threw) =>
      \A other \in LookupDates :
        (/\ CivilKey(other) \in DOMAIN LUNAR_CALENDAR_MAP
         /\ LUNAR_CALENDAR_MAP[CivilKey(other)].isLeapMonth
              # LUNAR_CALENDAR_MAP[CivilKey(arg.date)].isLeapMonth)
        => getLunarDate(other).value # res.value

CanonicalRokuyo == {Taian, Shakko, Sensho, Tomobiki, Senbu, Butsumetsu}

\* C22: after the table is built, the rokuyo of every stored record is one
\* of the six canonical labels.
C22_StoredRokuyoCanonical ==
    \A key \in DOMAIN LUNAR_CALENDAR_MAP :
      LUNAR_CALENDAR_MAP[key].rokuyo \in CanonicalRokuyo

IsTableQuery ==
    op \in {"getLunarCalendarData", "getLunarDate", "getRokuyo", "getMoonAge",
            "calculateEdoTime"}

\* What a query returns, as a function of its arguments and the tables.
QueryResult ==
    CASE op = "getLunarCalendarData" -> [data |-> getLunarCalendarData(arg.date)]
      [] op = "getLunarDate" -> getLunarDate(arg.date)
      [] op = "getRokuyo" -> getRokuyo(arg.date)
      [] op = "getMoonAge" -> getMoonAge(arg.date)
      [] op = "calculateEdoTime" ->
            calculateEdoTime(arg.date, arg.location, arg.host, arg.sun)

\* C23: no call of getLunarCalendarData, getLunarDate, getRokuyo, getMoonAge
\* or calculateEdoTime, failing calls included, changes the lunar-calendar map
\* or the new-moon list, and the result of a query is the one its arguments
\* and the tables as loaded determine.
C23_TablesNeverModified ==
    /\ [][/\ LUNAR_CALENDAR_MAP' = LUNAR_CALENDAR_MAP
          /\ newMoonDates' = newMoonDates]_vars
    /\ [](IsTableQuery => res = QueryResult)

\* A failing call on loaded tables.
C23_Witness ==
    /\ op = "calculateEdoTime"
    /\ res.threw
    /\ LUNAR_CALENDAR_MAP # <<>>
    /\ newMoonDates # <<>>

---------------------------------------------------------------------------
(* getTemporalTime over one night                                          *)

\* The midnight between the previous dusk and the dawn of the call.
Midnight == DayIndex(arg.akeMutsu) * DAY_MS

\* A call after midnight and before dawn, with the dusk of the day before.
IsMorningCall ==
    /\ IsTemporal
    /\ arg.prevKureMutsu # Undefined
    /\ Midnight <= arg.now
    /\ arg.now < arg.akeMutsu

\* The instants of the evening before at which the call of that evening is
\* compared: around the koku boundaries of its partition, up to midnight.
EveningInstants(dawnBefore) ==
    LET dusk == ValueOf(arg.prevKureMutsu)
        nightDuration == DAY_MS - (dusk - dawnBefore)
    IN  {t \in {b + j : b \in Sixths(dusk, nightDuration) \cup {Midnight},
                        j \in (-MaxJitter)..MaxJitter} :
           dusk <= t /\ t < Midnight}

\* C24: over one night the night koku never decreases as the instant
\* advances: the koku reported before midnight, in the partition of the day
\* of the dusk, is at most the koku reported after midnight, in the partition
\* [prevDusk, dawn).
C24_NightKokuNeverDecreases ==
    IsMorningCall =>
      \A dawnBefore \in PrevDawns(arg.akeMutsu) :
        \A earlier \in EveningInstants(dawnBefore) :
          LET evening == getTemporalTime(dawnBefore, ValueOf(arg.prevKureMutsu),
                                         earlier, Undefined)
          IN  /\ evening.period = "night"
              /\ res.period = "night"
              /\ evening.koku <= res.koku

---------------------------------------------------------------------------
(* getMoonAge between two consecutive new moons                            *)

\* The instant lies between the i-th new moon and the next one.
BetweenNewMoons(i, date) ==
    /\ i < Len(newMoonDates)
    /\ InstLE(newMoonDates[i], date)
    /\ InstLT(date, newMoonDates[i + 1])

\* C25: between two consecutive tabulated new moons the moon age equals the
\* time elapsed since the earlier one and is strictly increasing in the
\* instant, also when the two new moons are more than 29.53059 days apart.
C25_MoonAgeIsElapsedTime ==
    IsMoonAge =>
      \A i \in 1..Len(newMoonDates) :
        BetweenNewMoons(i, arg.date) =>
          /\ res.error = Undefined
          /\ res.moonAge = InstSub(arg.date, newMoonDates[i])
          /\ \A earlier \in MoonInputs :
                (BetweenNewMoons(i, earlier) /\ InstLT(earlier, arg.date))
                  => InstLT(getMoonAge(earlier).moonAge, res.moonAge)

---------------------------------------------------------------------------
(* Behaviour of CurrentLocationDisplay and reverseGeocode                  *)

\* Two positions a few metres apart, which share a cache key, and a third
\* one elsewhere, with the name the service has for each.
ShibuyaSide == Coords(3567620, 13965030)

SetagayaSide == Coords(3567622, 13965030)

Akashi == Coords(3465000, 13500000)

DisplayPositions == {ShibuyaSide, SetagayaSide, Akashi}

PlaceNameAt(coords) ==
    IF coords = ShibuyaSide THEN "Shibuya"
    ELSE IF coords = SetagayaSide THEN "Setagaya"
    ELSE "Akashi"

\* The effect of CurrentLocationDisplay runs at most this many times.
MaxDisplayRuns == 3

DisplayInit ==
    /\ CoreIdle
    /\ HookUnmounted
    /\ LogUnused
    /\ displayLoc \in {Undefined} \cup {Some(c) : c \in DisplayPositions}
    /\ placeNameState = PlaceNameState("idle", "", 0)
    /\ displayEffectDue = TRUE
    /\ displayRun = 0
    /\ geocodeCalls = {}
    /\ cache = <<>>
    /\ returned = <<>>
    /\ firstNames = <<>>

\* data.location has another latitude or longitude, or has come or gone.
DisplayRender ==
    /\ ~displayEffectDue
    /\ displayRun < MaxDisplayRuns
    /\ \E l \in {Undefined} \cup {Some(c) : c \in DisplayPositions} :
          /\ l # displayLoc
          /\ displayLoc' = l
    /\ displayEffectDue' = TRUE
    /\ UNCHANGED <<placeNameState, displayRun, geocodeCalls, cache, returned,
                   firstNames, notDisplayVars>>

\* The synchronous part of reverseGeocode: a cached name is returned at
\* once, otherwise the request is issued.
StartReverseGeocode(run, coords) ==
    LET key == cacheKey(coords.lat, coords.lon)
        later == key \in DOMAIN firstNames
    IN  IF key \in DOMAIN cache
        THEN GeocodeCall(run, coords, "done", Resolved(cache[key]), FALSE, later)
        ELSE GeocodeCall(run, coords, "fetch", ResolvedNull, TRUE, later)

\* The effect with the dependencies [loc?.lat, loc?.lon]: the cleanup of the
\* run before sets its cancelled flag, then the effect runs.
DisplayEffect ==
    /\ displayEffectDue
    /\ displayEffectDue' = FALSE
    /\ displayRun' = displayRun + 1
    /\ LET cleaned == {[c EXCEPT !.cancelled = TRUE] : c \in geocodeCalls}
       IN  IF displayLoc = Undefined
           THEN /\ placeNameState' = PlaceNameState("idle", "", displayRun')
                /\ geocodeCalls' = cleaned
                /\ UNCHANGED returned
           ELSE LET call == StartReverseGeocode(displayRun', ValueOf(displayLoc))
                IN  /\ placeNameState' = PlaceNameState("loading", "", displayRun')
                    /\ geocodeCalls' = cleaned \cup {call}
                    /\ returned' = IF call.stage = "done"
                                   THEN MapSet(returned, call.run, Returns(call))
                                   ELSE returned
    /\ UNCHANGED <<displayLoc, cache, firstNames, notDisplayVars>>

\* The rest of reverseGeocode once fetch has settled: a rejection (of fetch
\* or of res.json()), a response that is not ok, or data from which
\* buildPlaceName builds a name, possibly the empty one.
FetchResponds ==
    /\ \E call \in geocodeCalls :
        /\ call.stage = "fetch"
        /\ \E outcome \in {"rejected", "not ok", "name", "empty"} :
            LET key == cacheKey(call.coords.lat, call.coords.lon)
                name == IF outcome = "name" THEN PlaceNameAt(call.coords) ELSE ""
                result == IF outcome = "rejected" THEN Rejected
                          ELSE IF outcome = "not ok" \/ name = "" THEN ResolvedNull
                          ELSE Resolved(name)
                done == [call EXCEPT !.stage = "done", !.result = result]
            IN  /\ geocodeCalls' = (geocodeCalls \ {call}) \cup {done}
                /\ cache' = IF outcome \in {"name", "empty"} /\ name # ""
                            THEN MapSet(cache, key, name)
                            ELSE cache
                /\ firstNames' = IF result.name # Null /\ key \notin DOMAIN firstNames
                                 THEN MapSet(firstNames, key, name)
                                 ELSE firstNames
                /\ returned' = MapSet(returned, call.run, Returns(done))
    /\ UNCHANGED <<displayLoc, placeNameState, displayEffectDue, displayRun,
                   notDisplayVars>>

\* The callbacks without the cancelled test: the variant the mutation uses.
PlaceNameSettlesUnguarded ==
    /\ \E call \in geocodeCalls :
        /\ call.stage = "done"
        /\ geocodeCalls' = geocodeCalls \ {call}
        /\ placeNameState' =
             IF ~call.result.rejected /\ call.result.name # Null
             THEN PlaceNameState("ok", ValueOf(call.result.name), call.run)
             ELSE PlaceNameState("error", "", call.run)
    /\ UNCHANGED <<displayLoc, displayEffectDue, displayRun, cache, returned,
                   firstNames, notDisplayVars>>

\* The then / catch callbacks of the effect: nothing when cancelled, else
\* ok with the name, or error for null and for a rejection.
PlaceNameSettles ==
    /\ \E call \in geocodeCalls :
        /\ call.stage = "done"
        /\ geocodeCalls' = geocodeCalls \ {call}
        /\ placeNameState' =
             IF call.cancelled THEN placeNameState
             ELSE IF ~call.result.rejected /\ call.result.name # Null
             THEN PlaceNameState("ok", ValueOf(call.result.name), call.run)
             ELSE PlaceNameState("error", "", call.run)
    /\ UNCHANGED <<displayLoc, displayEffectDue, displayRun, cache, returned,
                   firstNames, notDisplayVars>>

DisplayNext ==
    \/ DisplayRender
    \/ DisplayEffect
    \/ FetchResponds
    \/ PlaceNameSettles

DisplaySpec == DisplayInit /\ [][DisplayNext]_vars

---------------------------------------------------------------------------
(* debugLog: log, getLogs, clearLogs                                       *)

MAX_LOGS == 500

\* log() is called in debug mode at most this many times.
MaxLogged == 502

\* clearLogs is called after at most this many calls of log() in debug
\* mode, or once MAX_LOGS calls have been made.
MaxEarlyClear == 1

LogScopes == {"useEdoTime"}

\* A LogEntry. The clock advances between two calls of log(), so the
\* timestamp also tells the entry objects apart.
LogEntry(timestamp, scope, payload) ==
    [timestamp |-> timestamp, scope |-> scope, payload |-> payload]

LogInit ==
    /\ CoreIdle
    /\ HookUnmounted
    /\ DisplayUnmounted
    /\ LogUnused

\* isDebug() reads the query string and localStorage, which the page and
\* the user change.
SetDebug ==
    /\ debug' = ~debug
    /\ op' = "setDebug"
    /\ arg' = <<>>
    /\ res' = <<>>
    /\ UNCHANGED <<logBuffer, clock, logged, notLogVars>>

\* log() that never evicts.
CallLogNoEviction ==
    \E scope \in LogScopes :
      /\ clock < MaxLogged
      /\ op' = "log"
      /\ arg' = <<scope>>
      /\ res' = <<>>
      /\ IF ~debug
           THEN UNCHANGED <<logBuffer, clock, logged>>
           ELSE LET entry == LogEntry(clock, scope, 0)
                IN  /\ logBuffer' = Append(logBuffer, entry)
                    /\ logged' = Append(logged, entry)
                    /\ clock' = clock + 1
      /\ UNCHANGED <<debug, notLogVars>>

CallLog ==
    \E scope \in LogScopes :
      /\ clock < MaxLogged
      /\ op' = "log"
      /\ arg' = <<scope>>
      /\ res' = <<>>
      /\ IF ~debug
           THEN UNCHANGED <<logBuffer, clock, logged>>
           ELSE LET entry == LogEntry(clock, scope, 0)
                    pushed == Append(logBuffer, entry)
                IN  /\ logBuffer' = (IF Len(pushed) > MAX_LOGS
                                       THEN Tail(pushed)
                                       ELSE pushed)
                    /\ logged' = Append(logged, entry)
                    /\ clock' = clock + 1
      /\ UNCHANGED <<debug, notLogVars>>

\* getLogs(): a new array of the same entry objects.
CallGetLogs ==
    /\ op' = "getLogs"
    /\ arg' = <<>>
    /\ res' = logBuffer
    /\ UNCHANGED <<logBuffer, debug, clock, logged, notLogVars>>

\* The caller changes the array that getLogs() returned: it removes the
\* first element.
MutateCopy ==
    /\ op = "getLogs"
    /\ res # <<>>
    /\ op' = "mutateCopy"
    /\ res' = Tail(res)
    /\ UNCHANGED <<arg, logBuffer, debug, clock, logged, notLogVars>>

\* The caller writes a field of the first entry of the array that getLogs()
\* returned. The array holds the entry objects of the buffer, so the entry
\* of the buffer changes with it.
MutateEntry ==
    /\ op = "getLogs"
    /\ res # <<>>
    /\ res[1].scope # "edited"
    /\ op' = "mutateEntry"
    /\ res' = [res EXCEPT ![1].scope = "edited"]
    /\ logBuffer' = [i \in DOMAIN logBuffer |->
                       IF logBuffer[i].timestamp = res[1].timestamp
                         THEN [logBuffer[i] EXCEPT !.scope = "edited"]
                         ELSE logBuffer[i]]
    /\ UNCHANGED <<arg, debug, clock, logged, notLogVars>>

CallClearLogs ==
    /\ clock <= MaxEarlyClear \/ clock >= MAX_LOGS
    /\ op' = "clearLogs"
    /\ arg' = <<>>
    /\ res' = <<>>
    /\ logBuffer' = <<>>
    /\ logged' = <<>>
    /\ UNCHANGED <<debug, clock, notLogVars>>

LogNext ==
    \/ SetDebug
    \/ CallLog
    \/ CallGetLogs
    \/ MutateCopy
    \/ MutateEntry
    \/ CallClearLogs

LogSpec == LogInit /\ [][LogNext]_vars

---------------------------------------------------------------------------
(* useEdoTime: the location                                                *)

\* C26: once a location prop is supplied and the location effect has run,
\* the loc of the hook equals the prop, and the last call of setLoc was not
\* made by a callback or a timer that an earlier run of the effect started.
C26_LocFollowsProp ==
    (locationProp # Undefined /\ ~locEffectDue) =>
      /\ loc = ValueOf(locationProp)
      /\ lastSetLoc.run = effectRun

\* What the current run of the effect started and is still pending.
PendingOfRun == {x \in positionRequests \cup retryTimers : x.run = effectRun}

\* The hook was mounted without a location prop and has had none since: the
\* location effect has run once.
NoPropRun ==
    /\ locationProp = Undefined
    /\ ~locEffectDue
    /\ effectRun = 1

FetchEnded == PendingOfRun = {}

---------------------------------------------------------------------------
(* CurrentLocationDisplay and the cache of reverseGeocode                  *)

\* The call of the current run of the effect has been delivered.
PlaceNameSettled ==
    /\ ~displayEffectDue
    /\ displayRun >= 1
    /\ \A call \in geocodeCalls : call.run # displayRun

\* C27: a response for an earlier location never overwrites the state of a
\* later one: once the effect has run for the current location the
\* place-name state was set by that run, and when its call has been
\* delivered the state is the result of that call (ok with its name, or
\* error), whatever the order in which the responses arrived.
C27_LatestLocationWins ==
    /\ ~displayEffectDue => placeNameState.by = displayRun
    /\ PlaceNameSettled =>
         IF displayLoc = Undefined THEN placeNameState.status = "idle"
         ELSE LET result == returned[displayRun].result
              IN  IF ~result.rejected /\ result.name # Null
                  THEN /\ placeNameState.status = "ok"
                       /\ placeNameState.name = ValueOf(result.name)
                  ELSE placeNameState.status = "error"

\* The location changed from one place to another and the state is the name
\* of the second place, while the name of the first place, which the service
\* has answered, is still to be delivered to the callback of the first run.
C27_Witness ==
    /\ ~displayEffectDue
    /\ displayRun = 2
    /\ displayLoc = Some(Akashi)
    /\ placeNameState = PlaceNameState("ok", "Akashi", 2)
    /\ \E call \in geocodeCalls :
          /\ call.run = 1
          /\ call.cancelled
          /\ call.stage = "done"
          /\ call.result = Resolved("Shibuya")

\* C29: a call made after reverseGeocode has returned a non-empty name for
\* its cache key returns that same name and issues no request; the cache
\* never maps a key to the empty string.
C29_CachedNameIsStable ==
    /\ \A run \in DOMAIN returned :
         returned[run].later =>
           /\ returned[run].result = Resolved(firstNames[returned[run].key])
           /\ ~returned[run].requested
    /\ \A key \in DOMAIN cache : cache[key] # ""

---------------------------------------------------------------------------
(* debugLog: the buffer                                                    *)

\* The most recent min(n, MAX_LOGS) of n entries.
MostRecent(entries) ==
    SubSeq(entries,
           (IF Len(entries) > MAX_LOGS THEN Len(entries) - MAX_LOGS ELSE 0) + 1,
           Len(entries))

Timestamps(entries) == [i \in DOMAIN entries |-> entries[i].timestamp]

\* C30 as stated: the buffer never holds more than MAX_LOGS entries and
\* equals, in order, the most recent min(n, MAX_LOGS) entries as they were
\* logged in debug mode since the last clearLogs, whatever is done with the
\* arrays that getLogs returned.
C30_BufferEqualsLogged ==
    /\ Len(logBuffer) <= MAX_LOGS
    /\ logBuffer = MostRecent(logged)

\* C30: the buffer never holds more than MAX_LOGS entries and holds, in
\* order, the entry objects of the most recent min(n, MAX_LOGS) calls of
\* log() in debug mode since the last clearLogs; log() changes nothing when
\* debug mode is off; adding or removing elements of the array that getLogs
\* returned does not change the buffer, and only a write to a field of an
\* entry reached through that array changes an entry of the buffer.
C30_BufferHoldsRecentEntries ==
    /\ [](/\ Len(logBuffer) <= MAX_LOGS
          /\ Timestamps(logBuffer) = Timestamps(MostRecent(logged)))
    /\ [][(op' = "log" /\ ~debug) =>
            UNCHANGED <<logBuffer, logged, clock, debug>>]_vars
    /\ [][op' = "mutateCopy" => logBuffer' = logBuffer]_vars
    /\ [][logBuffer' # logBuffer =>
            op' \in {"log", "clearLogs", "mutateEntry"}]_vars
    /\ [][op' = "mutateEntry" =>
            \A i \in DOMAIN logBuffer :
              /\ logBuffer'[i].timestamp = logBuffer[i].timestamp
              /\ logBuffer'[i].payload = logBuffer[i].payload]_vars

\* More than MAX_LOGS entries have been logged since the last clearLogs,
\* the oldest were evicted, and the caller has removed an element of the
\* array that getLogs returned.
C30_Witness ==
    /\ Len(logged) > MAX_LOGS
    /\ Len(logBuffer) = MAX_LOGS
    /\ logBuffer[1].timestamp = logged[1].timestamp + Len(logged) - MAX_LOGS
    /\ op = "mutateCopy"
    /\ Len(res) = MAX_LOGS - 1

====
